---- MODULE Spec2Model ----
(***************************************************************************)
(* State-machine model of the Handy speech engine's three managers:        *)
(*   - AudioRecordingManager   (managers/audio.rs)     : SpecRec           *)
(*   - ActiveListeningManager  (managers/active_listening.rs) : SpecAL     *)
(*   - AskAiManager            (managers/ask_ai.rs)    : SpecAsk           *)
(* Every std::sync::Mutex acquisition of the recording manager is a step   *)
(* of its own, so that lock order and blocking are visible.                *)
(***************************************************************************)
EXTENDS Naturals, Integers, Sequences, FiniteSets, TLC

VARIABLES
    \* ---- AudioRecordingManager (audio.rs:186-198) ----
    rec_state,      \* RecordingState: "Idle" or the owning binding id
    mic_mode,       \* MicrophoneMode
    is_open,        \* is_open flag
    is_recording,   \* is_recording flag
    did_mute,       \* did_mute flag
    recorder,       \* Option<AudioRecorder>
    al_callback,    \* active_listening_callback is Some
    sys_muted,      \* the system output mute state driven by set_mute
    settings,       \* always_on_microphone, mute_while_recording
    holder,         \* for each mutex, the thread holding it
    pc,             \* position of each thread
    stack,          \* return positions of each thread
    arg,            \* argument of the call in progress (binding id / new mode)
    ret,            \* value returned by the last call that returned
    pressed,        \* the transcribe shortcut is held down
    muted_at_cancel, \* did_mute as it was when cancel_recording reset the state
    mode_before,    \* the mode start_active_listening replaced by ActiveListening
    \* ---- ActiveListeningManager (active_listening.rs:145-171) ----
    al_state,       \* ActiveListeningState
    current_session, \* Option<ActiveListeningSession>: id and insights
    segment_buffer, \* number of samples in the segment buffer
    segment_start_time, \* segment_start_time is Some
    context_buffer, \* the rolling context: segments whose insights it holds
    current_segment_speaker, \* Option<u32>
    speaker_sets,   \* ghost: how often current_segment_speaker was assigned a
                    \* speaker since a segment was last taken
    tasks,          \* the segment-processing task of each segment taken
    seg_count,      \* segments taken from the buffer so far
    session_count,  \* sessions started so far
    stopped,        \* the sessions stop_session has returned to its callers
    loc,            \* locals of a call in progress: the samples taken and their
                    \* segment, the session id captured, the session taken
    \* ---- AskAiManager (ask_ai.rs:176-197) ----
    ask_state,      \* AskAiState
    active_conversation, \* Option<AskAiConversation>: id, turns, title
    cancel_signal,  \* AtomicBool
    questions,      \* the processing task of each question recorded
    question_count, \* questions handed to process_question so far
    conversation_count, \* conversations created so far
    cancelled,      \* questions in flight when a cancel that has returned began
    ask_pressed,    \* the ask_ai shortcut is held down
    rejected,       \* the press now held was turned down while Transcribing or Generating
    aloc,           \* locals of an Ask AI call in progress
    \* ---- ollama_client.rs ----
    prompt,         \* a call of apply_prompt_template_with_rag: arguments and result
    \* ---- AskAiConversation (ask_ai.rs:69-81) ----
    conv,           \* a conversation: turns and title
    conv_call,      \* the last call made on conv and what it returned
    \* ---- OllamaClient::generate_stream (ollama_client.rs:182-269) ----
    gen,            \* one call: the response stream, the channel, the text so far
    \* ---- RagManager::chunk_text (rag.rs:256-297) ----
    chunker,        \* one call: the text, start, the chunks pushed
    \* ---- RagManager::search (rag.rs:307-384) ----
    rag,            \* one call: the embeddings table, top_k, the results
    \* ---- setting-change commands (commands/rag.rs, commands/active_listening.rs) ----
    mixer,          \* AudioMixer (mixer.rs:37-46): the two buffers, the last
                    \* call with its samples and its output
    stop_call,      \* the buffer the recorder gave to the owner's stop_recording
                    \* and the buffer stop_recording returned
    config          \* the persisted settings, the RAG manager's model in its
                    \* table and in memory, the last command and what it found

recVars == <<rec_state, mic_mode, is_open, is_recording, did_mute, recorder,
             al_callback, sys_muted, settings, holder, pc, stack, arg, ret,
             pressed, muted_at_cancel, mode_before>>

\* the recording manager's data, without the threads' positions
recData == <<rec_state, mic_mode, is_open, is_recording, did_mute, recorder,
             al_callback, sys_muted, settings, holder, pressed, muted_at_cancel, mode_before>>

alVars == <<al_state, current_session, segment_buffer, segment_start_time,
            context_buffer, current_segment_speaker, speaker_sets, tasks, seg_count,
            session_count, stopped, loc>>

askVars == <<ask_state, active_conversation, cancel_signal,
             questions, question_count, conversation_count, cancelled,
             ask_pressed, rejected, aloc>>

\* the variables of the functions checked on their own
convVars == <<conv, conv_call>>

fnVars == <<prompt, convVars, gen, chunker, rag, config, mixer, stop_call>>

\* the three managers
mgrVars == <<recVars, alVars, askVars>>

\* everything but the variables of one of the functions
butPrompt == <<mgrVars, convVars, gen, chunker, rag, config, mixer, stop_call>>
butConv == <<mgrVars, prompt, gen, chunker, rag, config, mixer, stop_call>>
butGen == <<mgrVars, prompt, convVars, chunker, rag, config, mixer, stop_call>>
butChunker == <<mgrVars, prompt, convVars, gen, rag, config, mixer, stop_call>>
butRag == <<mgrVars, prompt, convVars, gen, chunker, config, mixer, stop_call>>
butConfig == <<mgrVars, prompt, convVars, gen, chunker, rag, mixer, stop_call>>
butMixer == <<mgrVars, prompt, convVars, gen, chunker, rag, config, stop_call>>
butStop == <<mgrVars, prompt, convVars, gen, chunker, rag, config, mixer>>

vars == <<recVars, alVars, askVars, fnVars>>

----------------------------------------------------------------------------
(* Recording manager: threads, mutexes, values *)

\* Two threads calling the manager's public operations: the transcribe shortcut's
\* handler, which also mutes and unmutes, and a thread serving the ask_ai shortcut
\* and the setting and device commands
ShortcutThread == "c1"
CommandThread == "c2"
Clients == {ShortcutThread, CommandThread}
KeyThread == "key"      \* the shortcut handler thread
MuteThread == "mute"    \* the thread spawned by TranscribeAction::start
TaskThread == "task"    \* the task spawned by TranscribeAction::stop
PttThreads == {KeyThread, MuteThread, TaskThread}
\* The audio callback thread, which pushes samples, and two threads serving the
\* Active Listening commands
AudioThread == "audio"
UiThreads == {"u1", "u2"}
AlThreads == {AudioThread} \cup UiThreads
\* the audio callback running against one command thread
AlCallers == {AudioThread, "u1"}
Threads == Clients \cup PttThreads \cup AlThreads \cup {"ak", "ac"}
NoThread == "none"

Bindings == {"transcribe", "ask_ai"}
BindingOf(t) == IF t = CommandThread THEN "ask_ai" ELSE "transcribe"
Modes == {"AlwaysOn", "OnDemand", "ActiveListening"}

LockNames == {"state", "mode", "is_open", "is_recording", "did_mute",
              "recorder", "active_listening_callback"}

\* The documented acquisition order: state -> mode -> is_open -> is_recording -> did_mute
OrderedLocks == {"state", "mode", "is_open", "is_recording", "did_mute"}
Rank(l) == CASE l = "state" -> 1
             [] l = "mode" -> 2
             [] l = "is_open" -> 3
             [] l = "is_recording" -> 4
             [] l = "did_mute" -> 5

NoRecorder == [some |-> FALSE, cb |-> FALSE, open |-> FALSE, running |-> FALSE]

\* Mutex::lock(): blocks until every lock in acq is free; the locks in rel are
\* released by the end of the step (a lock in both is taken and dropped within it).
Lk(t, acq, rel) ==
    /\ \A l \in acq : holder[l] = NoThread
    /\ holder' = [l \in LockNames |->
                    IF l \in rel THEN NoThread
                    ELSE IF l \in acq THEN t ELSE holder[l]]

Goto(t, l) == pc' = [pc EXCEPT ![t] = l]

Call(t, entry, cont) ==
    /\ pc' = [pc EXCEPT ![t] = entry]
    /\ stack' = [stack EXCEPT ![t] = <<cont>> \o @]

Return(t, val) ==
    /\ pc' = [pc EXCEPT ![t] = Head(stack[t])]
    /\ stack' = [stack EXCEPT ![t] = Tail(@)]
    /\ ret' = [ret EXCEPT ![t] = val]

\* AudioRecorder::open(device): the device may be missing
rec_open(r, ok) == [r EXCEPT !.open = ok]
\* AudioRecorder::start(): frames are delivered while the stream is open
rec_start(r) == [r EXCEPT !.running = r.open]
\* AudioRecorder::stop()
rec_stop(r) == [r EXCEPT !.running = FALSE]
\* AudioRecorder::close()
rec_close(r) == [r EXCEPT !.open = FALSE, !.running = FALSE]

----------------------------------------------------------------------------
(* apply_mute / remove_mute *)

apply_mute(t) ==
    \/ /\ pc[t] = "am0"
       /\ Lk(t, {"did_mute"}, {})
       /\ Goto(t, "am1")
       /\ UNCHANGED <<rec_state, mic_mode, is_open, is_recording, did_mute, recorder,
                      al_callback, sys_muted, settings, stack, arg, ret, pressed,
                      muted_at_cancel, mode_before, alVars, askVars, fnVars>>
    \/ /\ pc[t] = "am1"
       /\ Lk(t, {"is_open"}, {})
       /\ Goto(t, "am2")
       /\ UNCHANGED <<rec_state, mic_mode, is_open, is_recording, did_mute, recorder,
                      al_callback, sys_muted, settings, stack, arg, ret, pressed,
                      muted_at_cancel, mode_before, alVars, askVars, fnVars>>
    \/ /\ pc[t] = "am2"
       /\ Lk(t, {}, {"is_open", "did_mute"})
       /\ IF settings.mute_while_recording /\ is_open
            THEN sys_muted' = TRUE /\ did_mute' = TRUE
            ELSE UNCHANGED <<sys_muted, did_mute>>
       /\ Return(t, "unit")
       /\ UNCHANGED <<rec_state, mic_mode, is_open, is_recording, recorder,
                      al_callback, settings, arg, pressed, muted_at_cancel, mode_before, alVars, askVars, fnVars>>

remove_mute(t) ==
    /\ pc[t] = "rm0"
    /\ Lk(t, {"did_mute"}, {"did_mute"})
    /\ IF did_mute
         THEN sys_muted' = FALSE /\ did_mute' = FALSE
         ELSE UNCHANGED <<sys_muted, did_mute>>
    /\ Return(t, "unit")
    /\ UNCHANGED <<rec_state, mic_mode, is_open, is_recording, recorder,
                   al_callback, settings, arg, pressed, muted_at_cancel, mode_before, alVars, askVars, fnVars>>

----------------------------------------------------------------------------
(* start_microphone_stream / stop_microphone_stream *)

\* create the recorder if absent, open the device, set the flag (audio.rs:326-350)
OpenStream(t, rec) ==
    \E ok \in BOOLEAN :
        /\ recorder' = rec_open(rec, ok)
        /\ is_open' = ok
        /\ Lk(t, {}, {"is_open", "did_mute", "recorder", "mode",
                      "active_listening_callback"})
        /\ Return(t, IF ok THEN "ok" ELSE "err")

start_microphone_stream(t) ==
    \/ /\ pc[t] = "sm0"
       /\ IF is_open
            THEN /\ Lk(t, {"is_open"}, {"is_open"})
                 /\ Return(t, "ok")
            ELSE /\ Lk(t, {"is_open"}, {})
                 /\ Goto(t, "sm1")
                 /\ UNCHANGED <<stack, ret>>
       /\ UNCHANGED <<rec_state, mic_mode, is_open, is_recording, did_mute, recorder,
                      al_callback, sys_muted, settings, arg, pressed, muted_at_cancel, mode_before,
                      alVars, askVars, fnVars>>
    \/ /\ pc[t] = "sm1"
       /\ Lk(t, {"did_mute"}, {})
       /\ did_mute' = FALSE
       /\ Goto(t, "sm2")
       /\ UNCHANGED <<rec_state, mic_mode, is_open, is_recording, recorder,
                      al_callback, sys_muted, settings, stack, arg, ret, pressed,
                      muted_at_cancel, mode_before, alVars, askVars, fnVars>>
    \/ /\ pc[t] = "sm2"
       /\ holder["recorder"] = NoThread
       /\ IF recorder.some
            THEN OpenStream(t, recorder)
            ELSE /\ Lk(t, {"recorder"}, {})
                 /\ Goto(t, "sm3")
                 /\ UNCHANGED <<recorder, is_open, stack, ret>>
       /\ UNCHANGED <<rec_state, mic_mode, is_recording, did_mute,
                      al_callback, sys_muted, settings, arg, pressed, muted_at_cancel, mode_before,
                      alVars, askVars, fnVars>>
    \/ /\ pc[t] = "sm3"
       /\ Lk(t, {"mode"}, {})
       /\ Goto(t, "sm4")
       /\ UNCHANGED <<rec_state, mic_mode, is_open, is_recording, did_mute, recorder,
                      al_callback, sys_muted, settings, stack, arg, ret, pressed,
                      muted_at_cancel, mode_before, alVars, askVars, fnVars>>
    \/ /\ pc[t] = "sm4"
       /\ IF mic_mode = "ActiveListening"
            THEN /\ holder["active_listening_callback"] = NoThread
                 /\ OpenStream(t, [NoRecorder EXCEPT !.some = TRUE, !.cb = al_callback])
            ELSE OpenStream(t, [NoRecorder EXCEPT !.some = TRUE])
       /\ UNCHANGED <<rec_state, mic_mode, is_recording, did_mute,
                      al_callback, sys_muted, settings, arg, pressed, muted_at_cancel, mode_before,
                      alVars, askVars, fnVars>>

stop_microphone_stream(t) ==
    \/ /\ pc[t] = "xm0"
       /\ IF ~is_open
            THEN /\ Lk(t, {"is_open"}, {"is_open"})
                 /\ Return(t, "unit")
            ELSE /\ Lk(t, {"is_open"}, {})
                 /\ Goto(t, "xm1")
                 /\ UNCHANGED <<stack, ret>>
       /\ UNCHANGED <<rec_state, mic_mode, is_open, is_recording, did_mute, recorder,
                      al_callback, sys_muted, settings, arg, pressed, muted_at_cancel, mode_before,
                      alVars, askVars, fnVars>>
    \/ /\ pc[t] = "xm1"
       /\ Lk(t, {"did_mute"}, {})
       /\ sys_muted' = IF did_mute THEN FALSE ELSE sys_muted
       /\ did_mute' = FALSE
       /\ Goto(t, "xm2")
       /\ UNCHANGED <<rec_state, mic_mode, is_open, is_recording, recorder,
                      al_callback, settings, stack, arg, ret, pressed, muted_at_cancel, mode_before,
                      alVars, askVars, fnVars>>
    \/ /\ pc[t] = "xm2"
       /\ IF recorder.some
            THEN /\ Lk(t, {"recorder"}, {})
                 /\ Goto(t, "xm3")
                 /\ UNCHANGED <<is_open, stack, ret>>
            ELSE /\ Lk(t, {"recorder"}, {"recorder", "did_mute", "is_open"})
                 /\ is_open' = FALSE
                 /\ Return(t, "unit")
       /\ UNCHANGED <<rec_state, mic_mode, is_recording, did_mute, recorder,
                      al_callback, sys_muted, settings, arg, pressed, muted_at_cancel, mode_before,
                      alVars, askVars, fnVars>>
    \/ /\ pc[t] = "xm3"
       /\ Lk(t, {"is_recording"}, {})
       /\ Goto(t, "xm4")
       /\ UNCHANGED <<rec_state, mic_mode, is_open, is_recording, did_mute, recorder,
                      al_callback, sys_muted, settings, stack, arg, ret, pressed,
                      muted_at_cancel, mode_before, alVars, askVars, fnVars>>
    \/ /\ pc[t] = "xm4"
       /\ Lk(t, {}, {"is_recording", "recorder", "did_mute", "is_open"})
       /\ is_recording' = FALSE
       /\ recorder' = rec_close(recorder)
       /\ is_open' = FALSE
       /\ Return(t, "unit")
       /\ UNCHANGED <<rec_state, mic_mode, did_mute, al_callback, sys_muted,
                      settings, arg, pressed, muted_at_cancel, mode_before, alVars, askVars, fnVars>>

----------------------------------------------------------------------------
(* update_mode *)

update_mode(t) ==
    \/ /\ pc[t] = "um0"
       /\ IF mic_mode = "AlwaysOn" /\ arg[t] = "OnDemand"
            THEN /\ Lk(t, {"mode"}, {})
                 /\ Goto(t, "um1")
                 /\ UNCHANGED stack
            ELSE IF mic_mode = "OnDemand" /\ arg[t] = "AlwaysOn"
            THEN /\ Lk(t, {"mode"}, {"mode"})
                 /\ Call(t, "sm0", "um3")
            ELSE /\ Lk(t, {"mode"}, {})
                 /\ Goto(t, "um4")
                 /\ UNCHANGED stack
       /\ UNCHANGED <<rec_state, mic_mode, is_open, is_recording, did_mute, recorder,
                      al_callback, sys_muted, settings, arg, ret, pressed,
                      muted_at_cancel, mode_before, alVars, askVars, fnVars>>
    \/ /\ pc[t] = "um1"
       /\ Lk(t, {"state"}, {})
       /\ Goto(t, "um2")
       /\ UNCHANGED <<rec_state, mic_mode, is_open, is_recording, did_mute, recorder,
                      al_callback, sys_muted, settings, stack, arg, ret, pressed,
                      muted_at_cancel, mode_before, alVars, askVars, fnVars>>
    \/ /\ pc[t] = "um2"
       /\ IF rec_state = "Idle"
            THEN /\ Lk(t, {}, {"state", "mode"})
                 /\ Call(t, "xm0", "um4")
            ELSE /\ Lk(t, {}, {"state"})
                 /\ Goto(t, "um4")
                 /\ UNCHANGED stack
       /\ UNCHANGED <<rec_state, mic_mode, is_open, is_recording, did_mute, recorder,
                      al_callback, sys_muted, settings, arg, ret, pressed,
                      muted_at_cancel, mode_before, alVars, askVars, fnVars>>
    \/ /\ pc[t] = "um3"
       /\ IF ret[t] = "err"
            THEN /\ Return(t, "err")
                 /\ UNCHANGED <<mic_mode, holder, alVars, askVars, fnVars>>
            ELSE /\ Lk(t, {"mode"}, {"mode"})
                 /\ mic_mode' = arg[t]
                 /\ Return(t, "ok")
       /\ UNCHANGED <<rec_state, is_open, is_recording, did_mute, recorder,
                      al_callback, sys_muted, settings, arg, pressed, muted_at_cancel, mode_before,
                      alVars, askVars, fnVars>>
    \/ /\ pc[t] = "um4"
       \* line 406 locks mode again; a guard taken at line 385 and not dropped is
       \* still held by this thread, and the lock never becomes free
       /\ Lk(t, {"mode"}, {"mode"})
       /\ mic_mode' = arg[t]
       /\ Return(t, "ok")
       /\ UNCHANGED <<rec_state, is_open, is_recording, did_mute, recorder,
                      al_callback, sys_muted, settings, arg, pressed, muted_at_cancel, mode_before,
                      alVars, askVars, fnVars>>

----------------------------------------------------------------------------
(* try_start_recording / stop_recording / cancel_recording *)

\* a try_start_recording that takes the recording whatever its state
StartAllowedAlways(t) == TRUE

\* line 415: the request is served only from Idle
StartAllowed(t) == rec_state = "Idle"

\* lines 428-443: lock the recorder and start it
StartRecorder(t) ==
    IF recorder.some
      THEN /\ Lk(t, {"recorder"}, {})
           /\ recorder' = rec_start(recorder)
           /\ Goto(t, "ts5")
           /\ UNCHANGED <<stack, ret>>
      ELSE /\ Lk(t, {"recorder"}, {"recorder", "state"})
           /\ Return(t, "false")
           /\ UNCHANGED recorder

try_start_recording(t) ==
    \/ /\ pc[t] = "ts0"
       /\ IF StartAllowed(t)
            THEN /\ Lk(t, {"state"}, {})
                 /\ Goto(t, "ts1")
                 /\ UNCHANGED <<stack, ret>>
            ELSE /\ Lk(t, {"state"}, {"state"})
                 /\ Return(t, "false")
       /\ UNCHANGED <<rec_state, mic_mode, is_open, is_recording, did_mute, recorder,
                      al_callback, sys_muted, settings, arg, pressed, muted_at_cancel, mode_before,
                      alVars, askVars, fnVars>>
    \/ /\ pc[t] = "ts1"
       /\ Lk(t, {"mode"}, {})
       /\ Goto(t, "ts2")
       /\ UNCHANGED <<rec_state, mic_mode, is_open, is_recording, did_mute, recorder,
                      al_callback, sys_muted, settings, stack, arg, ret, pressed,
                      muted_at_cancel, mode_before, alVars, askVars, fnVars>>
    \/ /\ pc[t] = "ts2"
       /\ Lk(t, {}, {"mode"})
       /\ IF mic_mode = "OnDemand"
            THEN Call(t, "sm0", "ts3") /\ UNCHANGED ret
            ELSE /\ Goto(t, "ts3")
                 /\ ret' = [ret EXCEPT ![t] = "ok"]
                 /\ UNCHANGED stack
       /\ UNCHANGED <<rec_state, mic_mode, is_open, is_recording, did_mute, recorder,
                      al_callback, sys_muted, settings, arg, pressed,
                      muted_at_cancel, mode_before, alVars, askVars, fnVars>>
    \/ /\ pc[t] = "ts3"
       /\ IF ret[t] = "err"
            THEN /\ Lk(t, {}, {"state"})
                 /\ Return(t, "false")
                 /\ UNCHANGED recorder
            ELSE StartRecorder(t)
       /\ UNCHANGED <<rec_state, mic_mode, is_open, is_recording, did_mute,
                      al_callback, sys_muted, settings, arg, pressed, muted_at_cancel, mode_before,
                      alVars, askVars, fnVars>>
    \/ /\ pc[t] = "ts5"
       /\ Lk(t, {"is_recording"}, {})
       /\ Goto(t, "ts6")
       /\ UNCHANGED <<rec_state, mic_mode, is_open, is_recording, did_mute, recorder,
                      al_callback, sys_muted, settings, stack, arg, ret, pressed,
                      muted_at_cancel, mode_before, alVars, askVars, fnVars>>
    \/ /\ pc[t] = "ts6"
       /\ Lk(t, {}, {"is_recording", "recorder", "state"})
       /\ is_recording' = TRUE
       /\ rec_state' = arg[t]
       /\ Return(t, "true")
       /\ UNCHANGED <<mic_mode, is_open, did_mute, recorder, al_callback, sys_muted,
                      settings, arg, pressed, muted_at_cancel, mode_before, alVars, askVars, fnVars>>

StopAllowedAlways(t) == TRUE

\* lines 466-468: only the owning binding stops the recording
StopAllowed(t) == rec_state = arg[t]

\* lines 472-501 / 532-549, shared by stop_recording and cancel_recording:
\* stop the recorder, clear is_recording, close the stream in on-demand mode
StopTail(t, l1, l2, l3, l4, val) ==
    \/ /\ pc[t] = l1
       /\ Lk(t, {"recorder"}, {"recorder"})
       /\ recorder' = IF recorder.some THEN rec_stop(recorder) ELSE recorder
       /\ Goto(t, l2)
       /\ UNCHANGED <<rec_state, mic_mode, is_open, is_recording, did_mute,
                      al_callback, sys_muted, settings, stack, arg, ret, pressed,
                      alVars, askVars, fnVars>>
    \/ /\ pc[t] = l2
       /\ Lk(t, {"is_recording"}, {"is_recording"})
       /\ is_recording' = FALSE
       /\ Goto(t, l3)
       /\ UNCHANGED <<rec_state, mic_mode, is_open, did_mute, recorder,
                      al_callback, sys_muted, settings, stack, arg, ret, pressed,
                      alVars, askVars, fnVars>>
    \/ /\ pc[t] = l3
       /\ Lk(t, {"mode"}, {"mode"})
       /\ IF mic_mode = "OnDemand"
            THEN Call(t, "xm0", l4) /\ UNCHANGED ret
            ELSE Return(t, val)
       /\ UNCHANGED <<rec_state, mic_mode, is_open, is_recording, did_mute, recorder,
                      al_callback, sys_muted, settings, arg, pressed, alVars, askVars, fnVars>>
    \/ /\ pc[t] = l4
       /\ Return(t, val)
       /\ UNCHANGED <<rec_state, mic_mode, is_open, is_recording, did_mute, recorder,
                      al_callback, sys_muted, settings, holder, arg, pressed, alVars, askVars, fnVars>>

stop_recording(t) ==
    \/ /\ pc[t] = "sr0"
       /\ Lk(t, {"state"}, {"state"})
       /\ IF StopAllowed(t)
            THEN /\ rec_state' = "Idle"
                 /\ Goto(t, "sr1")
                 /\ UNCHANGED <<stack, ret>>
            ELSE /\ Return(t, "none")
                 /\ UNCHANGED rec_state
       /\ UNCHANGED <<mic_mode, is_open, is_recording, did_mute, recorder,
                      al_callback, sys_muted, settings, arg, pressed, muted_at_cancel, mode_before,
                      alVars, askVars, fnVars>>
    \/ /\ StopTail(t, "sr1", "sr2", "sr3", "sr4", "some")
       /\ UNCHANGED <<muted_at_cancel, mode_before>>

cancel_recording(t) ==
    \/ /\ pc[t] = "cr0"
       /\ Lk(t, {"state"}, {"state"})
       /\ IF rec_state # "Idle"
            THEN /\ rec_state' = "Idle"
                 /\ muted_at_cancel' = [muted_at_cancel EXCEPT ![t] = did_mute]
                 /\ Goto(t, "cr1")
                 /\ UNCHANGED <<stack, ret>>
            ELSE /\ Return(t, "nothing")
                 /\ UNCHANGED <<rec_state, muted_at_cancel>>
       /\ UNCHANGED <<mic_mode, is_open, is_recording, did_mute, recorder,
                      al_callback, sys_muted, settings, arg, pressed, mode_before,
                      alVars, askVars, fnVars>>
    \/ /\ StopTail(t, "cr1", "cr2", "cr3", "cr4", "cancelled")
       /\ UNCHANGED <<muted_at_cancel, mode_before>>

----------------------------------------------------------------------------
(* start_active_listening / stop_active_listening / update_selected_device *)

start_active_listening(t) ==
    \/ /\ pc[t] = "al0"
       /\ Lk(t, {"mode"}, {"mode"})
       /\ IF mic_mode = "ActiveListening"
            THEN Return(t, "ok")
            ELSE Call(t, "xm0", "al1") /\ UNCHANGED ret
       /\ UNCHANGED <<rec_state, mic_mode, is_open, is_recording, did_mute, recorder,
                      al_callback, sys_muted, settings, arg, pressed, muted_at_cancel, mode_before,
                      alVars, askVars, fnVars>>
    \/ /\ pc[t] = "al1"
       /\ Lk(t, {"recorder"}, {"recorder"})
       /\ recorder' = NoRecorder
       /\ Goto(t, "al2")
       /\ UNCHANGED <<rec_state, mic_mode, is_open, is_recording, did_mute,
                      al_callback, sys_muted, settings, stack, arg, ret, pressed,
                      muted_at_cancel, mode_before, alVars, askVars, fnVars>>
    \/ /\ pc[t] = "al2"
       /\ Lk(t, {"active_listening_callback"}, {"active_listening_callback"})
       /\ al_callback' = TRUE
       /\ Goto(t, "al3")
       /\ UNCHANGED <<rec_state, mic_mode, is_open, is_recording, did_mute, recorder,
                      sys_muted, settings, stack, arg, ret, pressed, muted_at_cancel, mode_before,
                      alVars, askVars, fnVars>>
    \/ /\ pc[t] = "al3"
       /\ Lk(t, {"mode"}, {"mode"})
       /\ mic_mode' = "ActiveListening"
       /\ mode_before' = IF mic_mode = "ActiveListening" THEN mode_before ELSE mic_mode
       /\ Call(t, "sm0", "al4")
       /\ UNCHANGED <<rec_state, is_open, is_recording, did_mute, recorder,
                      al_callback, sys_muted, settings, arg, ret, pressed,
                      muted_at_cancel, alVars, askVars, fnVars>>
    \/ /\ pc[t] = "al4"
       /\ IF ret[t] = "err"
            THEN /\ Return(t, "err")
                 /\ UNCHANGED <<holder, recorder>>
            ELSE IF recorder.some
            THEN /\ Lk(t, {"recorder"}, {})
                 /\ recorder' = rec_start(recorder)
                 /\ Goto(t, "al5")
                 /\ UNCHANGED <<stack, ret>>
            ELSE /\ Lk(t, {"recorder"}, {"recorder"})
                 /\ Return(t, "ok")
                 /\ UNCHANGED recorder
       /\ UNCHANGED <<rec_state, mic_mode, is_open, is_recording, did_mute,
                      al_callback, sys_muted, settings, arg, pressed, muted_at_cancel, mode_before,
                      alVars, askVars, fnVars>>
    \/ /\ pc[t] = "al5"
       /\ Lk(t, {"is_recording"}, {"is_recording", "recorder"})
       /\ is_recording' = TRUE
       /\ Return(t, "ok")
       /\ UNCHANGED <<rec_state, mic_mode, is_open, did_mute, recorder,
                      al_callback, sys_muted, settings, arg, pressed, muted_at_cancel, mode_before,
                      alVars, askVars, fnVars>>

stop_active_listening(t) ==
    \/ /\ pc[t] = "xl0"
       /\ Lk(t, {"mode"}, {"mode"})
       /\ IF mic_mode # "ActiveListening"
            THEN Return(t, "ok")
            ELSE Goto(t, "xl1") /\ UNCHANGED <<stack, ret>>
       /\ UNCHANGED <<rec_state, mic_mode, is_open, is_recording, did_mute, recorder,
                      al_callback, sys_muted, settings, arg, pressed, muted_at_cancel, mode_before,
                      alVars, askVars, fnVars>>
    \/ /\ pc[t] = "xl1"
       /\ Lk(t, {"recorder"}, {"recorder"})
       /\ recorder' = IF recorder.some THEN rec_stop(recorder) ELSE recorder
       /\ Goto(t, "xl2")
       /\ UNCHANGED <<rec_state, mic_mode, is_open, is_recording, did_mute,
                      al_callback, sys_muted, settings, stack, arg, ret, pressed,
                      muted_at_cancel, mode_before, alVars, askVars, fnVars>>
    \/ /\ pc[t] = "xl2"
       /\ Lk(t, {"is_recording"}, {"is_recording"})
       /\ is_recording' = FALSE
       /\ Call(t, "xm0", "xl3")
       /\ UNCHANGED <<rec_state, mic_mode, is_open, did_mute, recorder,
                      al_callback, sys_muted, settings, arg, ret, pressed,
                      muted_at_cancel, mode_before, alVars, askVars, fnVars>>
    \/ /\ pc[t] = "xl3"
       /\ Lk(t, {"recorder"}, {"recorder"})
       /\ recorder' = NoRecorder
       /\ Goto(t, "xl4")
       /\ UNCHANGED <<rec_state, mic_mode, is_open, is_recording, did_mute,
                      al_callback, sys_muted, settings, stack, arg, ret, pressed,
                      muted_at_cancel, mode_before, alVars, askVars, fnVars>>
    \/ /\ pc[t] = "xl4"
       /\ Lk(t, {"active_listening_callback"}, {"active_listening_callback"})
       /\ al_callback' = FALSE
       /\ Goto(t, "xl5")
       /\ UNCHANGED <<rec_state, mic_mode, is_open, is_recording, did_mute, recorder,
                      sys_muted, settings, stack, arg, ret, pressed, muted_at_cancel, mode_before,
                      alVars, askVars, fnVars>>
    \/ /\ pc[t] = "xl5"
       /\ Lk(t, {"mode"}, {"mode"})
       /\ mic_mode' = IF settings.always_on_microphone THEN "AlwaysOn" ELSE "OnDemand"
       /\ IF settings.always_on_microphone
            THEN Call(t, "sm0", "xl6") /\ UNCHANGED ret
            ELSE Return(t, "ok")
       /\ UNCHANGED <<rec_state, is_open, is_recording, did_mute, recorder,
                      al_callback, sys_muted, settings, arg, pressed, muted_at_cancel, mode_before,
                      alVars, askVars, fnVars>>
    \/ /\ pc[t] = "xl6"
       /\ Return(t, ret[t])
       /\ UNCHANGED <<rec_state, mic_mode, is_open, is_recording, did_mute, recorder,
                      al_callback, sys_muted, settings, holder, arg, pressed,
                      muted_at_cancel, mode_before, alVars, askVars, fnVars>>

update_selected_device(t) ==
    \/ /\ pc[t] = "ud0"
       /\ Lk(t, {"is_open"}, {"is_open"})
       /\ IF is_open
            THEN Call(t, "xm0", "ud1") /\ UNCHANGED ret
            ELSE Return(t, "ok")
       /\ UNCHANGED <<rec_state, mic_mode, is_open, is_recording, did_mute, recorder,
                      al_callback, sys_muted, settings, arg, pressed, muted_at_cancel, mode_before,
                      alVars, askVars, fnVars>>
    \/ /\ pc[t] = "ud1"
       /\ Call(t, "sm0", "ud2")
       /\ UNCHANGED <<rec_state, mic_mode, is_open, is_recording, did_mute, recorder,
                      al_callback, sys_muted, settings, holder, arg, ret, pressed,
                      muted_at_cancel, mode_before, alVars, askVars, fnVars>>
    \/ /\ pc[t] = "ud2"
       /\ Return(t, ret[t])
       /\ UNCHANGED <<rec_state, mic_mode, is_open, is_recording, did_mute, recorder,
                      al_callback, sys_muted, settings, holder, arg, pressed,
                      muted_at_cancel, mode_before, alVars, askVars, fnVars>>

----------------------------------------------------------------------------
(* Callers of the recording manager *)

\* the caller takes the result of its call and is free for the next one
Complete(t) ==
    /\ pc[t] = "done"
    /\ pc' = [pc EXCEPT ![t] = "idle"]
    /\ arg' = [arg EXCEPT ![t] = "none"]
    /\ ret' = [ret EXCEPT ![t] = "unit"]
    /\ muted_at_cancel' = [muted_at_cancel EXCEPT ![t] = FALSE]
    /\ UNCHANGED <<rec_state, mic_mode, is_open, is_recording, did_mute, recorder,
                   al_callback, sys_muted, settings, holder, stack, pressed, mode_before,
                   alVars, askVars, fnVars>>

\* A shortcut binding's start and stop: try_start_recording(binding) and
\* stop_recording(binding)
BindingAction(t) ==
    /\ pc[t] = "idle" /\ t \in Clients
    /\ \E entry \in {"ts0", "sr0"} : Call(t, entry, "done")
    /\ arg' = [arg EXCEPT ![t] = BindingOf(t)]
    /\ UNCHANGED <<rec_state, mic_mode, is_open, is_recording, did_mute, recorder,
                   al_callback, sys_muted, settings, holder, ret, pressed,
                   muted_at_cancel, mode_before, alVars, askVars, fnVars>>

\* CancelAction::start -> cancel_current_operation -> cancel_recording
CancelAction_start(t) ==
    /\ pc[t] = "idle" /\ t \in Clients
    /\ Call(t, "cr0", "done")
    /\ UNCHANGED <<rec_state, mic_mode, is_open, is_recording, did_mute, recorder,
                   al_callback, sys_muted, settings, holder, arg, ret, pressed,
                   muted_at_cancel, mode_before, alVars, askVars, fnVars>>

\* The always_on_microphone setting is written and update_mode is called with it
change_always_on_microphone(t) ==
    /\ pc[t] = "idle" /\ t = CommandThread
    /\ \E on \in BOOLEAN :
          /\ settings' = [settings EXCEPT !.always_on_microphone = on]
          /\ arg' = [arg EXCEPT ![t] = IF on THEN "AlwaysOn" ELSE "OnDemand"]
    /\ Call(t, "um0", "done")
    /\ UNCHANGED <<rec_state, mic_mode, is_open, is_recording, did_mute, recorder,
                   al_callback, sys_muted, holder, ret, pressed, muted_at_cancel, mode_before,
                   alVars, askVars, fnVars>>

\* The Active Listening toggle and the microphone selection
DeviceCommand(t) ==
    /\ pc[t] = "idle" /\ t = CommandThread
    /\ \E entry \in {"al0", "xl0", "ud0"} : Call(t, entry, "done")
    /\ UNCHANGED <<rec_state, mic_mode, is_open, is_recording, did_mute, recorder,
                   al_callback, sys_muted, settings, holder, arg, ret, pressed,
                   muted_at_cancel, mode_before, alVars, askVars, fnVars>>

\* update_mode(new_mode) with any mode, on the command thread
UpdateModeCall(t) ==
    /\ pc[t] = "idle" /\ t = CommandThread
    /\ \E new_mode \in Modes : arg' = [arg EXCEPT ![t] = new_mode]
    /\ Call(t, "um0", "done")
    /\ UNCHANGED <<rec_state, mic_mode, is_open, is_recording, did_mute, recorder,
                   al_callback, sys_muted, settings, holder, ret, pressed,
                   muted_at_cancel, mode_before, alVars, askVars, fnVars>>

\* start_active_listening(callback) and stop_active_listening() on the
\* command thread
ListeningCall(t) ==
    /\ pc[t] = "idle" /\ t = CommandThread
    /\ \E entry \in {"al0", "xl0"} : Call(t, entry, "done")
    /\ UNCHANGED <<rec_state, mic_mode, is_open, is_recording, did_mute, recorder,
                   al_callback, sys_muted, settings, holder, arg, ret, pressed,
                   muted_at_cancel, mode_before, alVars, askVars, fnVars>>

\* apply_mute and remove_mute as called around a recording
MuteCall(t) ==
    /\ pc[t] = "idle" /\ t = ShortcutThread
    /\ \E entry \in {"am0", "rm0"} : Call(t, entry, "done")
    /\ UNCHANGED <<rec_state, mic_mode, is_open, is_recording, did_mute, recorder,
                   al_callback, sys_muted, settings, holder, arg, ret, pressed,
                   muted_at_cancel, mode_before, alVars, askVars, fnVars>>

\* std::thread::spawn / async_runtime::spawn: thread w starts at entry, and the
\* spawning thread t goes on at tpc
Spawn(w, entry, t, tpc, tstack) ==
    /\ pc[w] = "idle"
    /\ pc' = [pc EXCEPT ![w] = entry, ![t] = tpc]
    /\ stack' = [stack EXCEPT ![w] = <<"done">>, ![t] = tstack]
    /\ arg' = [arg EXCEPT ![w] = "transcribe", ![t] = "transcribe"]

\* TranscribeAction::start: always-on spawns the sound-then-mute thread first and
\* then starts recording; on-demand starts recording and spawns it on success
TranscribeAction_start(t) ==
    \/ /\ pc[t] = "idle" /\ t = KeyThread /\ ~pressed
       /\ pressed' = TRUE
       /\ IF settings.always_on_microphone
            THEN Spawn(MuteThread, "am0", t, "ts0", <<"done">>)
            ELSE /\ pc' = [pc EXCEPT ![t] = "ts0"]
                 /\ stack' = [stack EXCEPT ![t] = <<"ta1">>]
                 /\ arg' = [arg EXCEPT ![t] = "transcribe"]
       /\ UNCHANGED <<rec_state, mic_mode, is_open, is_recording, did_mute, recorder,
                      al_callback, sys_muted, settings, holder, ret, muted_at_cancel, mode_before,
                      alVars, askVars, fnVars>>
    \/ /\ pc[t] = "ta1"
       /\ IF ret[t] = "true"
            THEN Spawn(MuteThread, "am0", t, "done", <<>>)
            ELSE /\ Goto(t, "done")
                 /\ UNCHANGED <<stack, arg>>
       /\ UNCHANGED <<rec_state, mic_mode, is_open, is_recording, did_mute, recorder,
                      al_callback, sys_muted, settings, holder, ret, pressed,
                      muted_at_cancel, mode_before, alVars, askVars, fnVars>>

\* TranscribeAction::stop: remove_mute, then stop_recording in a spawned task
TranscribeAction_stop(t) ==
    \/ /\ pc[t] = "idle" /\ t = KeyThread /\ pressed
       /\ Call(t, "rm0", "tp1")
       /\ UNCHANGED <<rec_state, mic_mode, is_open, is_recording, did_mute, recorder,
                      al_callback, sys_muted, settings, holder, arg, ret, pressed,
                      muted_at_cancel, mode_before, alVars, askVars, fnVars>>
    \/ /\ pc[t] = "tp1"
       /\ Spawn(TaskThread, "sr0", t, "done", <<>>)
       /\ pressed' = FALSE
       /\ UNCHANGED <<rec_state, mic_mode, is_open, is_recording, did_mute, recorder,
                      al_callback, sys_muted, settings, holder, ret, muted_at_cancel, mode_before,
                      alVars, askVars, fnVars>>

----------------------------------------------------------------------------
(* AudioRecordingManager::new and the specifications of the recording manager *)

InitRec ==
    /\ settings \in [always_on_microphone : BOOLEAN, mute_while_recording : BOOLEAN]
    /\ rec_state = "Idle"
    /\ mic_mode = IF settings.always_on_microphone THEN "AlwaysOn" ELSE "OnDemand"
    /\ is_open = settings.always_on_microphone
    /\ is_recording = FALSE
    /\ did_mute = FALSE
    /\ recorder = IF settings.always_on_microphone
                    THEN [some |-> TRUE, cb |-> FALSE, open |-> TRUE, running |-> FALSE]
                    ELSE NoRecorder
    /\ al_callback = FALSE
    /\ sys_muted = FALSE
    /\ holder = [l \in LockNames |-> NoThread]
    /\ pc = [t \in Threads |-> "idle"]
    /\ stack = [t \in Threads |-> <<>>]
    /\ arg = [t \in Threads |-> "none"]
    /\ ret = [t \in Threads |-> "unit"]
    /\ pressed = FALSE
    /\ muted_at_cancel = [t \in Threads |-> FALSE]
    /\ mode_before = "none"

\* the operations behind a push-to-talk cycle, stepped by thread t
RecordingStep(t) ==
    \/ apply_mute(t)
    \/ remove_mute(t)
    \/ start_microphone_stream(t)
    \/ stop_microphone_stream(t)
    \/ try_start_recording(t)
    \/ stop_recording(t)

\* The two client threads calling the manager concurrently
NextRec ==
    \E t \in Clients :
        \/ BindingAction(t)
        \/ CancelAction_start(t)
        \/ change_always_on_microphone(t)
        \/ DeviceCommand(t)
        \/ MuteCall(t)
        \/ Complete(t)
        \/ RecordingStep(t)
        \/ cancel_recording(t)
        \/ update_mode(t)
        \/ start_active_listening(t)
        \/ stop_active_listening(t)
        \/ update_selected_device(t)

\* The shortcut bindings and the cancel shortcut on the two client threads, with
\* no change of mode or device
NextBindings ==
    \E t \in Clients :
        \/ BindingAction(t)
        \/ CancelAction_start(t)
        \/ MuteCall(t)
        \/ Complete(t)
        \/ RecordingStep(t)
        \/ cancel_recording(t)

\* update_mode called with any mode while the bindings record and mute
NextMode ==
    \E t \in Clients :
        \/ BindingAction(t)
        \/ UpdateModeCall(t)
        \/ MuteCall(t)
        \/ Complete(t)
        \/ RecordingStep(t)
        \/ update_mode(t)

\* The audio capture of Active Listening started and stopped while the
\* bindings record
NextCapture ==
    \E t \in Clients :
        \/ BindingAction(t)
        \/ CancelAction_start(t)
        \/ ListeningCall(t)
        \/ MuteCall(t)
        \/ Complete(t)
        \/ RecordingStep(t)
        \/ cancel_recording(t)
        \/ start_active_listening(t)
        \/ stop_active_listening(t)

\* Push-to-talk: the shortcut handler, the mute thread and the stop task
NextPtt ==
    \E t \in PttThreads :
        \/ TranscribeAction_start(t)
        \/ TranscribeAction_stop(t)
        \/ Complete(t)
        \/ RecordingStep(t)

----------------------------------------------------------------------------
(* ActiveListeningManager: values *)

MaxSessions == 2       \* sessions started in one run
MaxSegments == 2       \* segments taken from the buffer in one run
MaxBuffer == 12000     \* samples the buffer holds in one run
ContextWindow == 1     \* settings.active_listening.context_window_size
FlushThreshold == 8000 \* flush_segment processes at least this many samples
PushSizes == {4000, 8000}
Speakers == {"You", "Speaker 2"}
MaxSets == 2        \* assignments of a speaker counted per segment
NoSpeaker == "none"
Segs == 1..MaxSegments

NoSession == [some |-> FALSE, id |-> 0, insights |-> <<>>]
NoLoc == [samples |-> 0, seg |-> 0, session |-> 0, taken |-> NoSession]
NoTask == [pc |-> "free", session |-> 0, transcription |-> "none",
           insight |-> "none", context |-> <<>>]

\* a return from one of the manager's operations: the call's locals are gone
AlReturn(t, val) ==
    /\ Return(t, val)
    /\ loc' = [loc EXCEPT ![t] = NoLoc]

----------------------------------------------------------------------------
(* start_session / stop_session *)

\* a start_session that does not look at the state
StartSessionAlways == TRUE

\* line 213: a session is started only from Idle
StartSessionAllowed == al_state = "Idle"

start_session(t) ==
    \/ /\ pc[t] = "ss0"
       /\ IF StartSessionAllowed
            THEN /\ session_count' = session_count + 1
                 /\ loc' = [loc EXCEPT ![t].session = session_count + 1]
                 /\ al_state' = "Listening"
                 /\ Goto(t, "ss1")
                 /\ UNCHANGED <<stack, ret>>
            ELSE /\ AlReturn(t, "err")
                 /\ UNCHANGED <<session_count, al_state>>
       /\ UNCHANGED <<askVars, fnVars, recData, arg, current_session, segment_buffer,
                      segment_start_time, context_buffer, current_segment_speaker, speaker_sets,
                      tasks, seg_count, stopped>>
    \/ /\ pc[t] = "ss1"
       /\ current_session' = [some |-> TRUE, id |-> loc[t].session, insights |-> <<>>]
       /\ Goto(t, "ss2")
       /\ UNCHANGED <<askVars, fnVars, recData, stack, arg, ret, al_state, segment_buffer,
                      segment_start_time, context_buffer, current_segment_speaker, speaker_sets,
                      tasks, seg_count, session_count, stopped, loc>>
    \/ /\ pc[t] = "ss2"
       /\ segment_buffer' = 0
       /\ Goto(t, "ss3")
       /\ UNCHANGED <<askVars, fnVars, recData, stack, arg, ret, al_state, current_session,
                      segment_start_time, context_buffer, current_segment_speaker, speaker_sets,
                      tasks, seg_count, session_count, stopped, loc>>
    \/ /\ pc[t] = "ss3"
       /\ segment_start_time' = FALSE
       /\ Goto(t, "ss4")
       /\ UNCHANGED <<askVars, fnVars, recData, stack, arg, ret, al_state, current_session,
                      segment_buffer, context_buffer, current_segment_speaker, speaker_sets,
                      tasks, seg_count, session_count, stopped, loc>>
    \/ /\ pc[t] = "ss4"
       /\ context_buffer' = <<>>
       /\ Goto(t, "ss5")
       /\ UNCHANGED <<askVars, fnVars, recData, stack, arg, ret, al_state, current_session,
                      segment_buffer, segment_start_time, current_segment_speaker, speaker_sets,
                      tasks, seg_count, session_count, stopped, loc>>
    \/ /\ pc[t] = "ss5"
       /\ current_segment_speaker' = NoSpeaker
       /\ speaker_sets' = 0
       /\ AlReturn(t, "ok")
       /\ UNCHANGED <<askVars, fnVars, recData, arg, al_state, current_session, segment_buffer,
                      segment_start_time, context_buffer, tasks, seg_count,
                      session_count, stopped>>

stop_session(t) ==
    \/ /\ pc[t] = "xs0"
       /\ IF al_state = "Idle"
            THEN /\ AlReturn(t, "none")
                 /\ UNCHANGED al_state
            ELSE /\ al_state' = "Idle"
                 /\ Goto(t, "xs1")
                 /\ UNCHANGED <<stack, ret, loc>>
       /\ UNCHANGED <<askVars, fnVars, recData, arg, current_session, segment_buffer,
                      segment_start_time, context_buffer, current_segment_speaker, speaker_sets,
                      tasks, seg_count, session_count, stopped>>
    \/ /\ pc[t] = "xs1"
       \* current.take(): the session leaves the manager with the insights it has
       /\ loc' = [loc EXCEPT ![t].taken = current_session]
       /\ current_session' = NoSession
       /\ Goto(t, "xs2")
       /\ UNCHANGED <<askVars, fnVars, recData, stack, arg, ret, al_state, segment_buffer,
                      segment_start_time, context_buffer, current_segment_speaker, speaker_sets,
                      tasks, seg_count, session_count, stopped>>
    \/ /\ pc[t] = "xs2"
       /\ segment_buffer' = 0
       /\ Goto(t, "xs3")
       /\ UNCHANGED <<askVars, fnVars, recData, stack, arg, ret, al_state, current_session,
                      segment_start_time, context_buffer, current_segment_speaker, speaker_sets,
                      tasks, seg_count, session_count, stopped, loc>>
    \/ /\ pc[t] = "xs3"
       /\ segment_start_time' = FALSE
       /\ IF loc[t].taken.some
            THEN /\ stopped' = stopped \cup {loc[t].taken}
                 /\ AlReturn(t, "some")
            ELSE /\ AlReturn(t, "none")
                 /\ UNCHANGED stopped
       /\ UNCHANGED <<askVars, fnVars, recData, arg, al_state, current_session, segment_buffer,
                      context_buffer, current_segment_speaker, speaker_sets, tasks, seg_count,
                      session_count>>

----------------------------------------------------------------------------
(* push_audio_samples / trigger_segment_processing / flush_segment *)

trigger_segment_processing(t) ==
    \/ /\ pc[t] = "tg0"
       \* lines 410-416: take the samples and clear the buffer
       /\ loc' = [loc EXCEPT ![t].samples = segment_buffer,
                             ![t].seg = IF segment_buffer > 0 THEN seg_count + 1 ELSE 0]
       /\ seg_count' = IF segment_buffer > 0 THEN seg_count + 1 ELSE seg_count
       /\ segment_buffer' = 0
       /\ speaker_sets' = IF segment_buffer > 0 THEN 0 ELSE speaker_sets
       /\ Goto(t, "tg1")
       /\ UNCHANGED <<askVars, fnVars, recData, stack, arg, ret, al_state, current_session,
                      segment_start_time, context_buffer, current_segment_speaker,
                      tasks, session_count, stopped>>
    \/ /\ pc[t] = "tg1"
       /\ segment_start_time' = TRUE
       /\ IF loc[t].samples = 0
            THEN AlReturn(t, "unit")
            ELSE /\ Goto(t, "tg2")
                 \* the samples go to the task; only their segment is followed
                 /\ loc' = [loc EXCEPT ![t].samples = 0]
                 /\ UNCHANGED <<stack, ret>>
       /\ UNCHANGED <<askVars, fnVars, recData, arg, al_state, current_session, segment_buffer,
                      context_buffer, current_segment_speaker, speaker_sets, tasks, seg_count,
                      session_count, stopped>>
    \/ /\ pc[t] = "tg2"
       /\ current_segment_speaker' = NoSpeaker
       /\ UNCHANGED speaker_sets
       /\ Goto(t, "tg3")
       /\ UNCHANGED <<askVars, fnVars, recData, stack, arg, ret, al_state, current_session,
                      segment_buffer, segment_start_time, context_buffer, tasks,
                      seg_count, session_count, stopped, loc>>
    \/ /\ pc[t] = "tg3"
       /\ IF current_session.some
            THEN /\ loc' = [loc EXCEPT ![t].session = current_session.id]
                 /\ Goto(t, "tg4")
                 /\ UNCHANGED <<stack, ret>>
            ELSE AlReturn(t, "unit")
       /\ UNCHANGED <<askVars, fnVars, recData, arg, al_state, current_session, segment_buffer,
                      segment_start_time, context_buffer, current_segment_speaker, speaker_sets,
                      tasks, seg_count, session_count, stopped>>
    \/ /\ pc[t] = "tg4"
       \* lines 448-491: the state becomes Processing and the task is spawned
       /\ al_state' = "Processing"
       /\ tasks' = [tasks EXCEPT ![loc[t].seg] =
                       [NoTask EXCEPT !.pc = "tk0", !.session = loc[t].session]]
       /\ AlReturn(t, "unit")
       /\ UNCHANGED <<askVars, fnVars, recData, arg, current_session, segment_buffer,
                      segment_start_time, context_buffer, current_segment_speaker, speaker_sets,
                      seg_count, session_count, stopped>>

push_audio_samples(t) ==
    \/ /\ pc[t] = "ps0"
       /\ IF al_state # "Listening"
            THEN AlReturn(t, "unit")
            ELSE Goto(t, "ps1") /\ UNCHANGED <<stack, ret, loc>>
       /\ UNCHANGED <<askVars, fnVars, recData, arg, al_state, current_session, segment_buffer,
                      segment_start_time, context_buffer, current_segment_speaker, speaker_sets,
                      tasks, seg_count, session_count, stopped>>
    \/ /\ pc[t] = "ps1"
       /\ segment_start_time' = TRUE
       /\ Goto(t, "ps2")
       /\ UNCHANGED <<askVars, fnVars, recData, stack, arg, ret, al_state, current_session,
                      segment_buffer, context_buffer, current_segment_speaker, speaker_sets,
                      tasks, seg_count, session_count, stopped, loc>>
    \/ /\ pc[t] = "ps2"
       \* lines 364-384: the first speaker detected names the segment
       /\ IF current_segment_speaker = NoSpeaker
            THEN /\ \E sp \in Speakers : current_segment_speaker' = sp
                 /\ speaker_sets' = IF speaker_sets < MaxSets
                                      THEN speaker_sets + 1 ELSE speaker_sets
            ELSE UNCHANGED <<current_segment_speaker, speaker_sets>>
       /\ Goto(t, "ps3")
       /\ UNCHANGED <<askVars, fnVars, recData, stack, arg, ret, al_state, current_session,
                      segment_buffer, segment_start_time, context_buffer, tasks,
                      seg_count, session_count, stopped, loc>>
    \/ /\ pc[t] = "ps3"
       /\ \E n \in PushSizes :
             /\ segment_buffer + n <= MaxBuffer
             /\ segment_buffer' = segment_buffer + n
       /\ Goto(t, "ps4")
       /\ UNCHANGED <<askVars, fnVars, recData, stack, arg, ret, al_state, current_session,
                      segment_start_time, context_buffer, current_segment_speaker, speaker_sets,
                      tasks, seg_count, session_count, stopped, loc>>
    \/ /\ pc[t] = "ps4"
       \* lines 393-404: the segment is due when its duration has elapsed
       /\ \E elapsed \in BOOLEAN :
             IF segment_start_time /\ elapsed
               THEN Goto(t, "tg0") /\ UNCHANGED <<stack, ret, loc>>
               ELSE AlReturn(t, "unit")
       /\ UNCHANGED <<askVars, fnVars, recData, arg, al_state, current_session, segment_buffer,
                      segment_start_time, context_buffer, current_segment_speaker, speaker_sets,
                      tasks, seg_count, session_count, stopped>>

flush_segment(t) ==
    \/ /\ pc[t] = "fl0"
       /\ IF al_state # "Listening"
            THEN AlReturn(t, "unit")
            ELSE Goto(t, "fl1") /\ UNCHANGED <<stack, ret, loc>>
       /\ UNCHANGED <<askVars, fnVars, recData, arg, al_state, current_session, segment_buffer,
                      segment_start_time, context_buffer, current_segment_speaker, speaker_sets,
                      tasks, seg_count, session_count, stopped>>
    \/ /\ pc[t] = "fl1"
       /\ IF segment_buffer >= FlushThreshold
            THEN Goto(t, "tg0") /\ UNCHANGED <<stack, ret, loc>>
            ELSE AlReturn(t, "unit")
       /\ UNCHANGED <<askVars, fnVars, recData, arg, al_state, current_session, segment_buffer,
                      segment_start_time, context_buffer, current_segment_speaker, speaker_sets,
                      tasks, seg_count, session_count, stopped>>

----------------------------------------------------------------------------
(* The segment-processing task: process_segment_with_session *)

RECURSIVE TrimFront(_, _)
\* lines 920-925: pop from the front while the buffer is longer than the window
TrimFront(q, n) == IF Len(q) > n THEN TrimFront(Tail(q), n) ELSE q

TaskGoto(k, l) == tasks' = [tasks EXCEPT ![k].pc = l]

AfterTranscriptionRecorded(transcription, model) ==
    IF transcription = "empty" THEN "tl" ELSE IF model THEN "cx" ELSE "ta"

\* lines 754-815: where the task goes on after the transcription
AfterTranscription(transcription, model) ==
    IF transcription # "text" THEN "tl" ELSE IF model THEN "cx" ELSE "ta"

process_segment_with_session(k) ==
    \/ /\ tasks[k].pc = "tk0"
       \* lines 752-815: transcribe; a failed or empty transcription ends the
       \* segment, and without a model the transcription is recorded with an
       \* empty insight
       /\ \E transcription \in {"text", "empty", "err"}, model \in BOOLEAN :
             tasks' = [tasks EXCEPT
                         ![k].transcription = transcription,
                         ![k].insight = IF transcription = "text" /\ ~model
                                          THEN "empty" ELSE @,
                         ![k].pc = AfterTranscription(transcription, model)]
       /\ UNCHANGED <<askVars, fnVars, recVars, al_state, current_session, segment_buffer,
                      segment_start_time, context_buffer, current_segment_speaker, speaker_sets,
                      seg_count, session_count, stopped, loc>>
    \/ /\ tasks[k].pc = "cx"
       \* lines 829-861: the previous context is read for the prompt; the client
       \* may fail to be created
       /\ \E client \in BOOLEAN :
             tasks' = [tasks EXCEPT ![k].context = context_buffer,
                                    ![k].pc = IF client THEN "gen" ELSE "tl"]
       /\ UNCHANGED <<askVars, fnVars, recVars, al_state, current_session, segment_buffer,
                      segment_start_time, context_buffer, current_segment_speaker, speaker_sets,
                      seg_count, session_count, stopped, loc>>
    \/ /\ tasks[k].pc = "gen"
       \* lines 884-926: the stream ends; a non-empty insight of a successful
       \* generation enters the context, a failed generation records an empty one
       /\ \E insight \in {"text", "empty", "err"} :
             /\ context_buffer' =
                   IF insight = "text"
                     THEN TrimFront(Append(context_buffer, k), ContextWindow)
                     ELSE context_buffer
             /\ tasks' = [tasks EXCEPT
                            ![k].insight = IF insight = "text" THEN "text" ELSE "empty",
                            ![k].pc = "ta"]
       /\ UNCHANGED <<askVars, fnVars, recVars, al_state, current_session, segment_buffer,
                      segment_start_time, current_segment_speaker, speaker_sets,
                      seg_count, session_count, stopped, loc>>

\* the insight is pushed onto the current session when its id is the task's
add_insight_to_session(k) ==
    /\ tasks[k].pc = "ta"
    /\ current_session' =
          IF current_session.some /\ current_session.id = tasks[k].session
            THEN [current_session EXCEPT !.insights = Append(@, k)]
            ELSE current_session
    /\ TaskGoto(k, "tl")
    /\ UNCHANGED <<askVars, fnVars, recVars, al_state, segment_buffer, segment_start_time,
                   context_buffer, current_segment_speaker, speaker_sets, seg_count,
                   session_count, stopped, loc>>

NeverProcessing == FALSE

\* line 1004: only transition if we're still processing (not stopped)
StillProcessing == al_state = "Processing"

transition_to_listening(k) ==
    /\ tasks[k].pc = "tl"
    /\ al_state' = IF StillProcessing THEN "Listening" ELSE al_state
    /\ TaskGoto(k, "done")
    /\ UNCHANGED <<askVars, fnVars, recVars, current_session, segment_buffer, segment_start_time,
                   context_buffer, current_segment_speaker, speaker_sets, seg_count,
                   session_count, stopped, loc>>

----------------------------------------------------------------------------
(* Callers of the Active Listening manager *)

\* the positions from which a call may still take a segment
TakeLabels == {"ps0", "ps1", "ps2", "ps3", "ps4", "fl0", "fl1", "tg0"}
Taking == Cardinality({u \in AlThreads : pc[u] \in TakeLabels})

\* the recorder's sample callback: push_audio_samples(samples)
AudioCallback(t) ==
    /\ pc[t] = "idle" /\ t = AudioThread
    /\ seg_count + Taking < MaxSegments
    /\ \E n \in PushSizes : segment_buffer + n <= MaxBuffer
    /\ Call(t, "ps0", "done")
    /\ UNCHANGED <<askVars, fnVars, recData, arg, ret, alVars>>

\* start_active_listening_session, stop_active_listening_session and the toggle
\* shortcut: start_session, flush_segment, stop_session
SessionCommand(t) ==
    /\ pc[t] = "idle" /\ t \in UiThreads
    /\ \E entry \in {"ss0", "xs0", "fl0"} :
          /\ entry = "ss0" =>
                session_count + Cardinality({u \in UiThreads : pc[u] = "ss0"})
                    < MaxSessions
          /\ entry = "fl0" => seg_count + Taking < MaxSegments
          /\ Call(t, entry, "done")
    /\ UNCHANGED <<askVars, fnVars, recData, arg, ret, alVars>>

\* ActiveListeningAction::start, the toggle: with a session active it flushes the
\* buffer, stops the audio capture and stops the session; otherwise it starts a
\* session and the audio capture, and stops the session when the capture fails
ActiveListeningAction_start(t) ==
    \/ /\ pc[t] = "idle" /\ t \in UiThreads
       /\ IF al_state # "Idle"
            THEN /\ seg_count + Taking < MaxSegments
                 /\ Call(t, "fl0", "at1")
            ELSE /\ session_count < MaxSessions
                 /\ Call(t, "ss0", "as1")
       /\ UNCHANGED <<askVars, fnVars, recData, arg, ret, alVars>>
    \/ /\ pc[t] = "at1"
       /\ Call(t, "xl0", "at2")
       /\ UNCHANGED <<askVars, fnVars, recData, arg, ret, alVars>>
    \/ /\ pc[t] = "at2"
       /\ Call(t, "xs0", "done")
       /\ UNCHANGED <<askVars, fnVars, recData, arg, ret, alVars>>
    \/ /\ pc[t] = "as1"
       /\ IF ret[t] = "ok"
            THEN Call(t, "al0", "as2")
            ELSE Goto(t, "done") /\ UNCHANGED stack
       /\ UNCHANGED <<askVars, fnVars, recData, arg, ret, alVars>>
    \/ /\ pc[t] = "as2"
       /\ IF ret[t] = "err"
            THEN Call(t, "xs0", "done")
            ELSE Goto(t, "done") /\ UNCHANGED stack
       /\ UNCHANGED <<askVars, fnVars, recData, arg, ret, alVars>>

\* The command start_active_listening_session: start_session(topic)?, then
\* start_active_listening(callback)?, each error returned as it comes
start_active_listening_session(t) ==
    \/ /\ pc[t] = "idle" /\ t \in UiThreads
       /\ session_count < MaxSessions
       /\ Call(t, "ss0", "cs1")
       /\ UNCHANGED <<askVars, fnVars, recData, arg, ret, alVars>>
    \/ /\ pc[t] = "cs1"
       /\ IF ret[t] = "ok"
            THEN Call(t, "al0", "cs2")
            ELSE Goto(t, "done") /\ UNCHANGED stack
       /\ UNCHANGED <<askVars, fnVars, recData, arg, ret, alVars>>
    \/ /\ pc[t] = "cs2"
       /\ Goto(t, "done")
       /\ UNCHANGED <<askVars, fnVars, recData, stack, arg, ret, alVars>>

\* The command stop_active_listening_session: flush_segment(), then
\* stop_active_listening()?, then stop_session()?
stop_active_listening_session(t) ==
    \/ /\ pc[t] = "idle" /\ t \in UiThreads
       /\ seg_count + Taking < MaxSegments
       /\ Call(t, "fl0", "ct1")
       /\ UNCHANGED <<askVars, fnVars, recData, arg, ret, alVars>>
    \/ /\ pc[t] = "ct1"
       /\ Call(t, "xl0", "ct2")
       /\ UNCHANGED <<askVars, fnVars, recData, arg, ret, alVars>>
    \/ /\ pc[t] = "ct2"
       /\ IF ret[t] = "err"
            THEN Goto(t, "done") /\ UNCHANGED stack
            ELSE Call(t, "xs0", "done")
       /\ UNCHANGED <<askVars, fnVars, recData, arg, ret, alVars>>

\* The callback registered by the toggle: the open stream hands a chunk of
\* samples to push_audio_samples
StreamCallback(t) ==
    /\ pc[t] = "idle" /\ t = AudioThread
    /\ al_callback /\ recorder.some /\ recorder.open
    /\ seg_count + Taking < MaxSegments
    /\ \E n \in PushSizes : segment_buffer + n <= MaxBuffer
    /\ Call(t, "ps0", "done")
    /\ UNCHANGED <<askVars, fnVars, recData, arg, ret, alVars>>

\* ActiveListeningManager::new
InitAL ==
    /\ al_state = "Idle"
    /\ current_session = NoSession
    /\ segment_buffer = 0
    /\ segment_start_time = FALSE
    /\ context_buffer = <<>>
    /\ current_segment_speaker = NoSpeaker
    /\ speaker_sets = 0
    /\ tasks = [k \in Segs |-> NoTask]
    /\ seg_count = 0
    /\ session_count = 0
    /\ stopped = {}
    /\ loc = [t \in AlThreads |-> NoLoc]

NextAL ==
    \/ \E t \in AlCallers :
          \/ AudioCallback(t)
          \/ SessionCommand(t)
          \/ Complete(t)
          \/ start_session(t)
          \/ stop_session(t)
          \/ push_audio_samples(t)
          \/ trigger_segment_processing(t)
          \/ flush_segment(t)
    \/ \E k \in Segs :
          \/ process_segment_with_session(k)
          \/ add_insight_to_session(k)
          \/ transition_to_listening(k)

\* Two command threads starting, flushing and stopping sessions concurrently
NextSession ==
    \E t \in UiThreads :
        \/ SessionCommand(t)
        \/ Complete(t)
        \/ start_session(t)
        \/ stop_session(t)
        \/ flush_segment(t)

\* The toggle shortcut on one thread and the stream's callback on the audio thread
NextToggle ==
    \/ \E t \in AlCallers :
        \/ ActiveListeningAction_start(t)
        \/ StreamCallback(t)
        \/ Complete(t)
        \/ start_session(t)
        \/ stop_session(t)
        \/ push_audio_samples(t)
        \/ trigger_segment_processing(t)
        \/ flush_segment(t)
        \/ start_active_listening(t)
        \/ stop_active_listening(t)
        \/ start_microphone_stream(t)
        \/ stop_microphone_stream(t)
    \/ \E k \in Segs :
        \/ process_segment_with_session(k)
        \/ add_insight_to_session(k)
        \/ transition_to_listening(k)

\* The two commands on one thread and the stream's callback on the audio thread
NextCommand ==
    \/ \E t \in AlCallers :
        \/ start_active_listening_session(t)
        \/ stop_active_listening_session(t)
        \/ StreamCallback(t)
        \/ Complete(t)
        \/ start_session(t)
        \/ stop_session(t)
        \/ push_audio_samples(t)
        \/ trigger_segment_processing(t)
        \/ flush_segment(t)
        \/ start_active_listening(t)
        \/ stop_active_listening(t)
        \/ start_microphone_stream(t)
        \/ stop_microphone_stream(t)
    \/ \E k \in Segs :
        \/ process_segment_with_session(k)
        \/ add_insight_to_session(k)
        \/ transition_to_listening(k)

----------------------------------------------------------------------------
(* Ask AI manager: threads and values *)

MaxQuestions == 2       \* questions handed to process_question in one run
MaxConversations == 2   \* a press or a new-conversation command is taken while
                        \* fewer conversations than this have been created
Questions == 1..MaxQuestions
\* The thread of the ask_ai shortcut's handler and a thread serving the commands
AskThread == "ak"
AskCommandThread == "ac"
AskThreads == {AskThread, AskCommandThread}

NoQuestion == 0
\* title: None
NoTitle == [question |-> NoQuestion, bytes |-> 0, ellipsis |-> FALSE]
NoConversation == [some |-> FALSE, id |-> 0, turns |-> <<>>, title |-> NoTitle]
\* AskAiConversation::new(): a fresh id, no turns, no title
NewConversation(n) == [some |-> TRUE, id |-> n, turns |-> <<>>, title |-> NoTitle]

\* the trimmed length in bytes of each question: question 1 is the longest a
\* title takes whole, every other question is one byte longer
TitleWhole == 50
TitleKept == 47
TrimmedBytes(q) == IF q = 1 THEN TitleWhole ELSE TitleWhole + 1

\* generate_title: the trimmed question, or its first 47 bytes and "..."
generate_title(q) ==
    IF TrimmedBytes(q) <= TitleWhole
      THEN [question |-> q, bytes |-> TrimmedBytes(q), ellipsis |-> FALSE]
      ELSE [question |-> q, bytes |-> TitleKept, ellipsis |-> TRUE]

\* &trimmed[..47] is taken: it panics when byte 47 is inside a character
Slices(c, q) == c.title = NoTitle /\ TrimmedBytes(q) > TitleWhole

TitleUnsetAlways(c) == TRUE
\* self.title.is_none()
TitleUnset(c) == c.title = NoTitle
\* AskAiConversation::add_turn: the title is seeded once, the turn is pushed
add_turn(c, q) ==
    [c EXCEPT !.title = IF TitleUnset(c) THEN generate_title(q) ELSE @,
              !.turns = Append(@, q)]
\* .as_ref().map(|c| !c.turns.is_empty()).unwrap_or(false)
HasTurns(c) == c.some /\ Len(c.turns) > 0

NoProcess == [pc |-> "free", conversation |-> 0]
NoALoc == [flag |-> FALSE, inflight |-> {}, generating |-> FALSE]
SetALoc(t, f, s) ==
    aloc' = [aloc EXCEPT ![t] = [flag |-> f, inflight |-> s, generating |-> FALSE]]
\* the questions whose processing task has started and not returned
InFlight == {k \in Questions : questions[k].pc \notin {"free", "done"}}

\* the active conversation holds a turn of a question that is not in flight
HadPriorTurn ==
    /\ active_conversation.some
    /\ \E i \in 1..Len(active_conversation.turns) :
          active_conversation.turns[i] \notin InFlight

----------------------------------------------------------------------------
(* start_recording / process_question *)

\* lines 263-268: accepted from Idle, Complete and ConversationActive only
StartRecordingAllowed == ask_state \in {"Idle", "Complete", "ConversationActive"}

start_recording(t) ==
    \/ /\ pc[t] = "ar0"
       /\ IF StartRecordingAllowed
            THEN /\ SetALoc(t, ask_state \in {"Complete", "ConversationActive"}, {})
                 /\ ask_state' = "Recording"
                 /\ Goto(t, "ar1")
                 /\ UNCHANGED <<stack, ret, rejected>>
            ELSE /\ Return(t, "err")
                 /\ rejected' = (ask_state \in {"Transcribing", "Generating"})
                 /\ UNCHANGED <<ask_state, aloc>>
       /\ UNCHANGED <<recData, arg, alVars, fnVars, active_conversation,
                      cancel_signal, questions, question_count, conversation_count,
                      cancelled, ask_pressed>>
    \/ /\ pc[t] = "ar1"
       /\ IF ~aloc[t].flag
            THEN /\ active_conversation' = NewConversation(conversation_count + 1)
                 /\ conversation_count' = conversation_count + 1
            ELSE UNCHANGED <<active_conversation, conversation_count>>
       /\ SetALoc(t, FALSE, {})
       /\ Goto(t, "ar2")
       /\ UNCHANGED <<recData, stack, arg, ret, alVars, fnVars, ask_state, cancel_signal, questions, question_count, cancelled,
                      ask_pressed, rejected>>
    \/ /\ pc[t] = "ar2"
       /\ cancel_signal' = FALSE
       /\ Return(t, "ok")
       /\ UNCHANGED <<recData, arg, alVars, fnVars, ask_state, active_conversation, questions, question_count,
                      conversation_count, cancelled, ask_pressed, rejected, aloc>>

\* aloc[t].flag on entry: samples.is_empty()
process_question(t) ==
    \/ /\ pc[t] = "pq0"
       /\ IF aloc[t].flag
            THEN /\ SetALoc(t, HasTurns(active_conversation), {})
                 /\ Goto(t, "pq1")
                 /\ UNCHANGED ask_state
            ELSE /\ ask_state' = "Transcribing"
                 /\ Goto(t, "pq2")
                 /\ UNCHANGED aloc
       /\ UNCHANGED <<recData, stack, arg, ret, alVars, fnVars, active_conversation, cancel_signal, questions, question_count,
                      conversation_count, cancelled, ask_pressed, rejected>>
    \/ /\ pc[t] = "pq1"
       /\ IF aloc[t].flag
            THEN /\ ask_state' = "ConversationActive"
                 /\ Return(t, "unit")
            ELSE /\ Goto(t, "rs0")
                 /\ UNCHANGED <<ask_state, stack, ret>>
       /\ SetALoc(t, FALSE, {})
       /\ UNCHANGED <<recData, arg, alVars, fnVars, active_conversation,
                      cancel_signal, questions, question_count, conversation_count,
                      cancelled, ask_pressed, rejected>>
    \/ /\ pc[t] = "pq2"
       /\ question_count' = question_count + 1
       /\ questions' = [questions EXCEPT ![question_count + 1] =
                          [pc |-> "p0", conversation |-> active_conversation.id]]
       /\ Return(t, "unit")
       /\ UNCHANGED <<recData, arg, alVars, fnVars, ask_state, active_conversation, cancel_signal, conversation_count,
                      cancelled, ask_pressed, rejected, aloc>>

----------------------------------------------------------------------------
(* cancel / reset / dismiss / start_new_conversation *)

cancel(t) ==
    \/ /\ pc[t] = "cn0"
       /\ cancel_signal' = TRUE
       /\ aloc' = [aloc EXCEPT ![t] =
                     [flag |-> HadPriorTurn,
                      inflight |-> IF ask_state \in {"Transcribing", "Generating"}
                                     THEN InFlight ELSE {},
                      generating |-> ask_state = "Generating"]]
       /\ Call(t, "rs0", "cn1")
       /\ UNCHANGED <<recData, arg, ret, alVars, fnVars, ask_state, active_conversation, questions, question_count,
                      conversation_count, cancelled, ask_pressed, rejected>>
    \/ /\ pc[t] = "cn1"
       /\ cancelled' = cancelled \cup aloc[t].inflight
       /\ SetALoc(t, FALSE, {})
       /\ Return(t, "unit")
       /\ UNCHANGED <<recData, arg, alVars, fnVars, ask_state, active_conversation, cancel_signal, questions, question_count,
                      conversation_count, ask_pressed, rejected>>

reset(t) ==
    \/ /\ pc[t] = "rs0"
       /\ ask_state' = "Idle"
       /\ Goto(t, "rs1")
       /\ UNCHANGED <<recData, stack, arg, ret, alVars, fnVars, active_conversation, cancel_signal, questions, question_count,
                      conversation_count, cancelled, ask_pressed, rejected, aloc>>
    \/ /\ pc[t] = "rs1"
       /\ active_conversation' = NoConversation
       /\ Return(t, "unit")
       /\ UNCHANGED <<recData, arg, alVars, fnVars, ask_state, cancel_signal, questions,
                      question_count, conversation_count, cancelled, ask_pressed, rejected,
                      aloc>>

dismiss(t) ==
    \/ /\ pc[t] = "dm0"
       /\ SetALoc(t, HasTurns(active_conversation), {})
       /\ Goto(t, "dm1")
       /\ UNCHANGED <<recData, stack, arg, ret, alVars, fnVars, ask_state, active_conversation, cancel_signal, questions, question_count,
                      conversation_count, cancelled, ask_pressed, rejected>>
    \/ /\ pc[t] = "dm1"
       /\ IF aloc[t].flag
            THEN /\ ask_state' = "Idle"
                 /\ Return(t, "unit")
            ELSE /\ Goto(t, "rs0")
                 /\ UNCHANGED <<ask_state, stack, ret>>
       /\ SetALoc(t, FALSE, {})
       /\ UNCHANGED <<recData, arg, alVars, fnVars, active_conversation,
                      cancel_signal, questions, question_count, conversation_count,
                      cancelled, ask_pressed, rejected>>

start_new_conversation(t) ==
    \/ /\ pc[t] = "nc0"
       /\ Call(t, "rs0", "nc1")
       /\ UNCHANGED <<recData, arg, ret, alVars, askVars, fnVars>>
    \/ /\ pc[t] = "nc1"
       /\ active_conversation' = NewConversation(conversation_count + 1)
       /\ conversation_count' = conversation_count + 1
       /\ Return(t, "ok")
       /\ UNCHANGED <<recData, arg, alVars, fnVars, ask_state, cancel_signal, questions, question_count, cancelled,
                      ask_pressed, rejected, aloc>>

----------------------------------------------------------------------------
(* AskAiManagerHandle::process, the task spawned by process_question.  A step
   that touches only the task's own data (the transcription, the settings read,
   the generation) is taken together with the shared access next to it. *)

QGoto(k, l) == questions' = [questions EXCEPT ![k].pc = l]

process(k) ==
    \/ /\ questions[k].pc = "p0"
       /\ \E transcription \in {"text", "empty", "err"} :
             QGoto(k, IF cancel_signal THEN "done"
                      ELSE IF transcription = "text" THEN "p1" ELSE "pe")
       /\ UNCHANGED <<recVars, alVars, fnVars, ask_state, active_conversation,
                      cancel_signal, question_count, conversation_count, cancelled,
                      ask_pressed, rejected, aloc>>
    \/ /\ questions[k].pc = "p1"
       /\ QGoto(k, IF cancel_signal THEN "done" ELSE "p2")
       /\ UNCHANGED <<recVars, alVars, fnVars, ask_state, active_conversation,
                      cancel_signal, question_count, conversation_count, cancelled,
                      ask_pressed, rejected, aloc>>
    \/ /\ questions[k].pc = "p2"
       /\ ask_state' = "Generating"
       /\ \E configured \in BOOLEAN : QGoto(k, IF configured THEN "p3" ELSE "pe")
       /\ UNCHANGED <<recVars, alVars, fnVars, active_conversation, cancel_signal,
                      question_count, conversation_count, cancelled, ask_pressed, rejected,
                      aloc>>
    \/ /\ questions[k].pc = "p3"
       /\ \E ollama_result \in {"ok", "err"} :
             QGoto(k, IF cancel_signal THEN "done"
                      ELSE IF ollama_result = "ok" THEN "p4" ELSE "pe")
       /\ UNCHANGED <<recVars, alVars, fnVars, ask_state, active_conversation,
                      cancel_signal, question_count, conversation_count, cancelled,
                      ask_pressed, rejected, aloc>>
    \/ /\ questions[k].pc = "p4"
       /\ active_conversation' = IF active_conversation.some
                                   THEN add_turn(active_conversation, k)
                                   ELSE active_conversation
       /\ QGoto(k, "p5")
       /\ UNCHANGED <<recVars, alVars, fnVars, ask_state, cancel_signal, question_count,
                      conversation_count, cancelled, ask_pressed, rejected, aloc>>
    \/ /\ questions[k].pc = "p5"
       /\ ask_state' = "Complete"
       /\ QGoto(k, "done")
       /\ UNCHANGED <<recVars, alVars, fnVars, active_conversation, cancel_signal,
                      question_count, conversation_count, cancelled, ask_pressed, rejected,
                      aloc>>

emit_error(k) ==
    /\ questions[k].pc = "pe"
    /\ ask_state' = "Error"
    /\ QGoto(k, "done")
    /\ UNCHANGED <<recVars, alVars, fnVars, active_conversation,
                   cancel_signal, question_count, conversation_count, cancelled,
                   ask_pressed, rejected, aloc>>

----------------------------------------------------------------------------
(* Callers of the Ask AI manager *)

\* AskAiAction::start: start_recording, then try_start_recording("ask_ai"), and
\* cancel when the recording does not start
AskAiAction_start(t) ==
    \/ /\ pc[t] = "idle" /\ t = AskThread /\ ~ask_pressed
       /\ question_count < MaxQuestions
       /\ conversation_count < MaxConversations
       /\ ask_pressed' = TRUE
       /\ rejected' = FALSE
       /\ Call(t, "ar0", "aa1")
       /\ UNCHANGED <<recData, arg, ret, alVars, fnVars, ask_state, active_conversation, cancel_signal, questions, question_count,
                      conversation_count, cancelled, aloc>>
    \/ /\ pc[t] = "aa1"
       /\ IF ret[t] = "err"
            THEN /\ Goto(t, "done")
                 /\ UNCHANGED <<stack, arg>>
            ELSE /\ Goto(t, "ts0")
                 /\ stack' = [stack EXCEPT ![t] = <<"aa2", "done">>]
                 /\ arg' = [arg EXCEPT ![t] = "ask_ai"]
       /\ UNCHANGED <<recData, ret, alVars, askVars, fnVars>>
    \/ /\ pc[t] = "aa2"
       /\ IF ret[t] = "true"
            THEN Goto(t, "done") /\ UNCHANGED stack
            ELSE Call(t, "cn0", "done")
       /\ UNCHANGED <<recData, arg, ret, alVars, askVars, fnVars>>

\* AskAiAction::stop: stop_recording("ask_ai"), then process_question(samples),
\* or cancel when the recording was not this binding's
AskAiAction_stop(t) ==
    \/ /\ pc[t] = "idle" /\ t = AskThread /\ ask_pressed
       /\ ask_pressed' = FALSE
       /\ UNCHANGED rejected
       /\ Call(t, "sr0", "ab1")
       /\ arg' = [arg EXCEPT ![t] = "ask_ai"]
       /\ UNCHANGED <<recData, ret, alVars, fnVars, ask_state, active_conversation, cancel_signal, questions, question_count,
                      conversation_count, cancelled, aloc>>
    \/ /\ pc[t] = "ab1"
       /\ IF ret[t] = "some"
            THEN /\ \E empty \in BOOLEAN : SetALoc(t, empty, {})
                 /\ Call(t, "pq0", "done")
            ELSE /\ Call(t, "cn0", "done")
                 /\ UNCHANGED aloc
       /\ UNCHANGED <<recData, arg, ret, alVars, fnVars, ask_state, active_conversation, cancel_signal, questions, question_count,
                      conversation_count, cancelled, ask_pressed, rejected>>

\* cancel_ask_ai_session, reset_ask_ai_session, dismiss_ask_ai_session and
\* start_new_ask_ai_conversation
AskCommand(t) ==
    /\ pc[t] = "idle" /\ t = AskCommandThread
    /\ \E entry \in {"cn0", "rs0", "dm0", "nc0"} :
          /\ entry = "nc0" => conversation_count < MaxConversations
          /\ Call(t, entry, "done")
    /\ UNCHANGED <<recData, arg, ret, alVars, askVars, fnVars>>

InitAsk ==
    /\ ask_state = "Idle"
    /\ active_conversation = NoConversation
    /\ cancel_signal = FALSE
    /\ questions = [k \in Questions |-> NoProcess]
    /\ question_count = 0
    /\ conversation_count = 0
    /\ cancelled = {}
    /\ ask_pressed = FALSE
    /\ rejected = FALSE
    /\ aloc = [t \in AskThreads |-> NoALoc]

\* The ask_ai shortcut's handler, the command thread and the processing tasks
NextAsk ==
    \/ \E t \in AskThreads :
        \/ AskAiAction_start(t)
        \/ AskAiAction_stop(t)
        \/ AskCommand(t)
        \/ Complete(t)
        \/ start_recording(t)
        \/ process_question(t)
        \/ cancel(t)
        \/ reset(t)
        \/ dismiss(t)
        \/ start_new_conversation(t)
        \/ try_start_recording(t)
        \/ stop_recording(t)
        \/ start_microphone_stream(t)
        \/ stop_microphone_stream(t)
    \/ \E k \in Questions :
        \/ process(k)
        \/ emit_error(k)

----------------------------------------------------------------------------
(* Specifications *)

----------------------------------------------------------------------------
(* AskAiConversation on its own (ask_ai.rs:83-143) *)

MAX_CONTEXT_TURNS == 10
MaxTurns == 12

\* the index before the first turn that build_context takes
start_idx_zero(turns) == 0
start_idx(turns) ==
    IF Len(turns) > MAX_CONTEXT_TURNS THEN Len(turns) - MAX_CONTEXT_TURNS ELSE 0

\* "User: {question}\n" and "Assistant: {response}\n\n" of one turn
TurnLines(turn) == <<[role |-> "User", turn |-> turn],
                     [role |-> "Assistant", turn |-> turn]>>

RECURSIVE push_turns(_, _)
\* for turn in &turns[from..] { context.push_str(..) }, turns indexed from 1
push_turns(turns, from) ==
    IF from > Len(turns)
      THEN <<>>
      ELSE TurnLines(turns[from]) \o push_turns(turns, from + 1)

build_context(c) == push_turns(c.turns, start_idx(c.turns) + 1)

NoCall == [op |-> "none", question |-> NoQuestion, outcome |-> "none",
           context |-> <<>>]

\* conv.add_turn(question, ..): with a title to seed from a question longer than
\* 50 bytes the slice is taken, and it panics when it ends inside a character
ConvAddTurn ==
    /\ Len(conv.turns) < MaxTurns
    /\ \E q \in Questions, boundary \in BOOLEAN :
          IF Slices(conv, q) /\ ~boundary
            THEN /\ conv_call' = [NoCall EXCEPT !.op = "add_turn", !.question = q,
                                                !.outcome = "panicked"]
                 /\ UNCHANGED conv
            ELSE /\ conv' = add_turn(conv, q)
                 /\ conv_call' = [NoCall EXCEPT !.op = "add_turn", !.question = q,
                                                !.outcome = "returned"]
    /\ UNCHANGED butConv

ConvBuildContext ==
    /\ conv_call' = [NoCall EXCEPT !.op = "build_context", !.outcome = "returned",
                                   !.context = build_context(conv)]
    /\ UNCHANGED <<butConv, conv>>

NextConversation == ConvAddTurn \/ ConvBuildContext

InitConv == conv = NewConversation(1) /\ conv_call = NoCall

----------------------------------------------------------------------------
(* Prompt templating (ollama_client.rs:378-415) *)

\* A text is a sequence of pieces; a piece is one of the placeholders or some
\* other text
Placeholders == {"{{transcription}}", "{{previous_context}}",
                 "{{session_topic}}", "{{retrieved_context}}"}

Pieces == Placeholders \cup {"x"}

MaxTemplate == 2
MaxValue == 1

Texts(n) == UNION {[1..k -> Pieces] : k \in 0..n}

None == [some |-> FALSE, value |-> <<>>]
Some(v) == [some |-> TRUE, value |-> v]

unwrap_or(o, default) == IF o.some THEN o.value ELSE default

\* str::replace: every occurrence of from in s, left to right, becomes to; the
\* text put in is not searched again within one call
RECURSIVE replace(_, _, _)
replace(s, from, to) ==
    IF s = <<>>
      THEN <<>>
      ELSE (IF Head(s) = from THEN to ELSE <<Head(s)>>) \o replace(Tail(s), from, to)

apply_prompt_template_with_rag(template, transcription, previous_context, session_topic, retrieved_context) ==
    LET r1 == replace(template, "{{transcription}}", transcription)
        r2 == replace(r1, "{{previous_context}}", previous_context)
        r3 == replace(r2, "{{session_topic}}",
                      unwrap_or(session_topic, <<"Not specified">>))
        r4 == replace(r3, "{{retrieved_context}}",
                      unwrap_or(retrieved_context,
                                <<"No additional context available">>))
    IN  r4

NoPrompt == [template |-> <<>>, transcription |-> <<>>, previous_context |-> <<>>,
             session_topic |-> None, retrieved_context |-> None, result |-> None]

\* the arguments a call can be made with
PromptInputs ==
    [template : Texts(MaxTemplate), transcription : Texts(MaxValue),
     previous_context : Texts(MaxValue),
     session_topic : {None} \cup {Some(v) : v \in Texts(MaxValue)},
     retrieved_context : {None} \cup {Some(v) : v \in Texts(MaxValue)},
     result : {None}]

\* one call of the function with the arguments held in prompt
PromptCall ==
    /\ ~prompt.result.some
    /\ prompt' = [prompt EXCEPT !.result =
                     Some(apply_prompt_template_with_rag(
                              prompt.template, prompt.transcription,
                              prompt.previous_context, prompt.session_topic,
                              prompt.retrieved_context))]
    /\ UNCHANGED butPrompt

NextTemplate == PromptCall

----------------------------------------------------------------------------
(* OllamaClient::generate_stream (ollama_client.rs:182-269) *)

MaxLines == 3

\* a line of the response stream: a JSON line with a non-empty response, with an
\* empty one, either of them with done set, a line that does not parse, or an
\* error of the stream in place of a chunk
LineKinds == {"token", "empty", "token_done", "done", "unparsable", "read_error"}

HasResponse(line) == line \in {"token", "token_done"}
IsDone(line) == line \in {"token_done", "done"}

NoResult == [some |-> FALSE, ok |-> FALSE, text |-> <<>>]
Ok(text) == [some |-> TRUE, ok |-> TRUE, text |-> text]
Err == [some |-> TRUE, ok |-> FALSE, text |-> <<>>]

\* a call not yet made: the lines the server will send, the position of the next
\* line, complete_response, what the channel took, its receiver, the result
GenInputs ==
    [lines : UNION {[1..n -> LineKinds] : n \in 0..MaxLines},
     pc : {"request"}, pos : {1}, complete_response : {<<>>},
     received : {<<>>}, receiver : {"alive"}, result : {NoResult}]

NoGen == [lines |-> <<>>, pc |-> "unused", pos |-> 1, complete_response |-> <<>>,
          received |-> <<>>, receiver |-> "alive", result |-> NoResult]

SendNeverFails(g) == FALSE
\* tx.send(..).await.is_err(): the receiver was dropped
SendFails(g) == g.receiver = "dropped"

\* lines 189-221: the request is sent; a failure to send it or a status that is
\* not a success ends the call with an error
GenRequest ==
    /\ gen.pc = "request"
    /\ \E outcome \in {"success", "send_failed", "bad_status"} :
          gen' = IF outcome = "success"
                   THEN [gen EXCEPT !.pc = "stream"]
                   ELSE [gen EXCEPT !.pc = "returned", !.result = Err]
    /\ UNCHANGED butGen

\* lines 226-264: one line of the stream, the token of line i being i
GenLine ==
    /\ gen.pc = "stream"
    /\ gen.pos <= Len(gen.lines)
    /\ LET line == gen.lines[gen.pos]
           text == IF HasResponse(line)
                     THEN Append(gen.complete_response, gen.pos)
                     ELSE gen.complete_response
           g == [gen EXCEPT !.pos = @ + 1, !.complete_response = text]
       IN  gen' =
             CASE line = "read_error" ->
                    [g EXCEPT !.pc = "returned", !.result = Err]
               [] line = "unparsable" -> g
               [] HasResponse(line) /\ SendFails(gen) ->
                    [g EXCEPT !.pc = "returned", !.result = Ok(text)]
               [] OTHER ->
                    LET h == IF HasResponse(line)
                               THEN [g EXCEPT !.received = Append(@, gen.pos)]
                               ELSE g
                    IN  IF IsDone(line)
                          THEN [h EXCEPT !.pc = "returned", !.result = Ok(text)]
                          ELSE h
    /\ UNCHANGED butGen

\* line 226: the stream has ended
GenEnd ==
    /\ gen.pc = "stream"
    /\ gen.pos > Len(gen.lines)
    /\ gen' = [gen EXCEPT !.pc = "returned", !.result = Ok(gen.complete_response)]
    /\ UNCHANGED butGen

\* the consumer of the channel drops its receiver
ReceiverDropped ==
    /\ gen.pc \in {"request", "stream"}
    /\ gen.receiver = "alive"
    /\ gen' = [gen EXCEPT !.receiver = "dropped"]
    /\ UNCHANGED butGen

NextStream == GenRequest \/ GenLine \/ GenEnd \/ ReceiverDropped

InitGen == gen = NoGen

----------------------------------------------------------------------------
(* RagManager::chunk_text (rag.rs:256-297) *)

\* chunk_size is 500 and overlap 50 characters in the source; the model keeps
\* the code and runs it on texts of a few characters with a chunk of 4 and an
\* overlap of 1
ChunkSize == 4
Overlap == 1
MaxText == 6
MaxChunks == 6

\* a letter of one byte, a letter of two bytes, the end of a sentence, a space
Chars == {"a", "e2", ".", " "}
Utf8Len(c) == IF c = "e2" THEN 2 ELSE 1

RECURSIVE len(_)
\* String::len(): the length in bytes
len(str) == IF str = <<>> THEN 0 ELSE Utf8Len(Head(str)) + len(Tail(str))

\* usize::saturating_sub
saturating_sub(a, b) == IF a > b THEN a - b ELSE 0

\* str::rfind over the characters of a set: the last position (from 1) of one
\* of them, 0 for None
rfind(str, set) ==
    LET found == {i \in 1..Len(str) : str[i] \in set}
    IN  IF found = {} THEN 0 ELSE CHOOSE i \in found : \A j \in found : j <= i

\* lines 271-283: a chunk that does not reach the end of the text is cut after
\* its last sentence end, or else before its last space
break_at_boundary(chunk, at_end) ==
    IF at_end THEN chunk
    ELSE IF rfind(chunk, {"."}) > 0 THEN SubSeq(chunk, 1, rfind(chunk, {"."}))
    ELSE IF rfind(chunk, {" "}) > 0 THEN SubSeq(chunk, 1, rfind(chunk, {" "}) - 1)
    ELSE chunk

\* chunk.trim().is_empty()
trim_is_empty(chunk) == \A i \in 1..Len(chunk) : chunk[i] = " "

ChunkInputs ==
    [text : UNION {[1..n -> Chars] : n \in 0..MaxText},
     pc : {"call"}, start : {0}, chunks : {<<>>}]

NoChunker == [text |-> <<>>, pc |-> "unused", start |-> 0, chunks |-> <<>>]

\* lines 263-267: a text of at most chunk_size characters is returned whole
ChunkCall ==
    /\ chunker.pc = "call"
    /\ chunker' =
          IF Len(chunker.text) <= ChunkSize
            THEN [chunker EXCEPT !.pc = "returned",
                                 !.chunks = <<[from |-> 0, chunk |-> chunker.text]>>]
            ELSE [chunker EXCEPT !.pc = "loop"]
    /\ UNCHANGED butChunker

\* lines 269-294: one round of the loop; start counts characters and is moved
\* by the length of the chunk in bytes less the overlap
ChunkRound ==
    /\ chunker.pc = "loop"
    /\ Len(chunker.chunks) < MaxChunks
    /\ LET chars == chunker.text
           start == chunker.start
           end == IF start + ChunkSize < Len(chars) THEN start + ChunkSize
                                                   ELSE Len(chars)
           chunk == break_at_boundary(SubSeq(chars, start + 1, end),
                                      end >= Len(chars))
           next == start + saturating_sub(len(chunk), Overlap)
       IN  chunker' =
             [chunker EXCEPT
                !.chunks = IF trim_is_empty(chunk)
                             THEN @ ELSE Append(@, [from |-> start, chunk |-> chunk]),
                !.start = next,
                !.pc = IF next >= Len(chars) THEN "returned" ELSE "loop"]
    /\ UNCHANGED butChunker

NextChunker == ChunkCall \/ ChunkRound

InitChunker == chunker = NoChunker

----------------------------------------------------------------------------
(* RagManager::search (rag.rs:307-384) *)

MaxRows == 3
MaxTopK == 2

EmbeddingModels == {"nomic-embed-text", "other-model"}

\* an f32: a number or NaN
NaN == [nan |-> TRUE, value |-> 0]
F32(v) == [nan |-> FALSE, value |-> v]
Similarities == {NaN} \cup {F32(v) : v \in 1..2}

\* f32::partial_cmp
partial_cmp(a, b) ==
    IF a.nan \/ b.nan THEN "None"
    ELSE IF a.value < b.value THEN "Less"
    ELSE IF a.value > b.value THEN "Greater"
    ELSE "Equal"

\* |a, b| b.similarity.partial_cmp(&a.similarity).unwrap_or(Ordering::Equal)
by_similarity(a, b) ==
    LET o == partial_cmp(b.similarity, a.similarity)
    IN  IF o = "None" THEN "Equal" ELSE o

RECURSIVE insert_tail(_, _)
\* the last element of a sorted slice is moved left past every element it is
\* less than
insert_tail(sorted, x) ==
    IF sorted # <<>> /\ by_similarity(x, sorted[Len(sorted)]) = "Less"
      THEN Append(insert_tail(SubSeq(sorted, 1, Len(sorted) - 1), x),
                  sorted[Len(sorted)])
      ELSE Append(sorted, x)

RECURSIVE sort_by(_)
\* slice::sort_by on a short slice: the stable insertion sort
sort_by(v) ==
    IF v = <<>> THEN <<>>
    ELSE insert_tail(sort_by(SubSeq(v, 1, Len(v) - 1)), v[Len(v)])

\* Vec::truncate
truncate(v, n) == IF Len(v) > n THEN SubSeq(v, 1, n) ELSE v

\* WHERE e.model = ?1, each row with its similarity to the query
RowsOfModel(rows, model) ==
    SelectSeq([i \in 1..Len(rows) |-> [row |-> i, model |-> rows[i].model,
                                        similarity |-> rows[i].similarity]],
              LAMBDA r : r.model = model)

\* a call not yet made: the rows of the embeddings table with the similarity of
\* each to the query, the embedding model, top_k
RagInputs ==
    [rows : UNION {[1..n -> [model : EmbeddingModels, similarity : Similarities]] :
                     n \in 0..MaxRows},
     embedding_model : {"nomic-embed-text"}, top_k : 0..MaxTopK,
     pc : {"call"}, results : {<<>>}, ok : {FALSE}]

NoRag == [rows |-> <<>>, embedding_model |-> "nomic-embed-text", top_k |-> 0,
          pc |-> "unused", results |-> <<>>, ok |-> FALSE]

\* lines 308-314: the query is embedded, or the call fails
SearchEmbed ==
    /\ rag.pc = "call"
    /\ \E embedded \in BOOLEAN :
          rag' = IF embedded THEN [rag EXCEPT !.pc = "query"]
                             ELSE [rag EXCEPT !.pc = "returned"]
    /\ UNCHANGED butRag

\* lines 317-383: the rows of the model are read, sorted and truncated
SearchQuery ==
    /\ rag.pc = "query"
    /\ rag' = [rag EXCEPT
                 !.pc = "returned", !.ok = TRUE,
                 !.results = truncate(sort_by(RowsOfModel(rag.rows,
                                                          rag.embedding_model)),
                                      rag.top_k)]
    /\ UNCHANGED butRag

NextRag == SearchEmbed \/ SearchQuery

InitRag == rag = NoRag

----------------------------------------------------------------------------
(* Setting-change commands (commands/rag.rs:141-181,
   commands/active_listening.rs:228-241) *)

\* an f32 argument in tenths: below 0.0, 0.0, 0.5, 1.0, above 1.0
Ratios == {-1, 0, 5, 10, 11}
\* (0.0..=1.0).contains(&x)
InUnitRange(x) == 0 <= x /\ x <= 10

\* what a command can change: the persisted settings, the row of rag_settings,
\* the model the RAG manager holds
Configured(c) ==
    [embedding_model |-> c.embedding_model,
     similarity_threshold |-> c.similarity_threshold,
     mix_ratio |-> c.mix_ratio,
     rag_settings_model |-> c.rag_settings_model,
     rag_model |-> c.rag_model]

\* the command is entered: what it finds is remembered
Entered(c, name) == [c EXCEPT !.command = name, !.before = Configured(c)]

\* RagManager::set_embedding_model: the connection is opened, the row updated,
\* the model in memory set; a failure of the first two returns before the rest
set_embedding_model(c, model, outcome) ==
    IF outcome = "ok"
      THEN [c EXCEPT !.rag_settings_model = model, !.rag_model = model,
                     !.returned = "ok"]
      ELSE [c EXCEPT !.returned = "err"]

\* Connection::open and conn.execute succeed or fail
DbOutcomes == {"ok", "open_failed", "update_failed"}

\* the settings are written, then the RAG manager is updated
change_kb_embedding_model_setting ==
    /\ \E model \in EmbeddingModels, outcome \in DbOutcomes :
          config' = set_embedding_model(
                       [Entered(config, "change_kb_embedding_model_setting")
                          EXCEPT !.embedding_model = model],
                       model, outcome)
    /\ UNCHANGED butConfig

change_kb_similarity_threshold_setting ==
    /\ \E threshold \in Ratios :
          LET c == Entered(config, "change_kb_similarity_threshold_setting")
          IN  config' = IF ~InUnitRange(threshold)
                          THEN [c EXCEPT !.returned = "err"]
                          ELSE [c EXCEPT !.similarity_threshold = threshold,
                                         !.returned = "ok"]
    /\ UNCHANGED butConfig

change_audio_mix_ratio_setting ==
    /\ \E mix_ratio \in Ratios :
          LET c == Entered(config, "change_audio_mix_ratio_setting")
          IN  config' = IF ~InUnitRange(mix_ratio)
                          THEN [c EXCEPT !.returned = "err"]
                          ELSE [c EXCEPT !.mix_ratio = mix_ratio,
                                         !.returned = "ok"]
    /\ UNCHANGED butConfig

NextConfig ==
    \/ change_kb_embedding_model_setting
    \/ change_kb_similarity_threshold_setting
    \/ change_audio_mix_ratio_setting

\* the defaults: settings and the RAG manager agree on the model
DefaultConfig ==
    LET c == [embedding_model |-> "nomic-embed-text", similarity_threshold |-> 5,
              mix_ratio |-> 5, rag_settings_model |-> "nomic-embed-text",
              rag_model |-> "nomic-embed-text"]
    IN  [embedding_model |-> c.embedding_model,
         similarity_threshold |-> c.similarity_threshold,
         mix_ratio |-> c.mix_ratio,
         rag_settings_model |-> c.rag_settings_model,
         rag_model |-> c.rag_model,
         command |-> "none", before |-> c, returned |-> "none"]

InitConfig == config = DefaultConfig

----------------------------------------------------------------------------
(* AudioMixer (audio_toolkit/audio/mixer.rs:48-187) *)

\* MAX_BUFFER_SIZE is 80000 in the source; the model runs the code with a
\* capacity of 3 samples
MAX_BUFFER_SIZE == 3
MaxPushed == 7      \* samples pushed from one source in one run
PushLens == {1, 2, 4}

\* usize::min
min(a, b) == IF a < b THEN a ELSE b

keep_all(buffer) == buffer
\* while buffer.len() > MAX_BUFFER_SIZE { buffer.pop_front(); }
pop_overflow(buffer) == TrimFront(buffer, MAX_BUFFER_SIZE)

\* for &sample in samples { buffer.push_back(sample) }, then the overflow goes
push(buffer, samples) == pop_overflow(buffer \o samples)

mic_len(m) == Len(m.mic_buffer)
\* self.mic_buffer.len().min(self.system_buffer.len())
available_samples(m) == min(Len(m.mic_buffer), Len(m.system_buffer))

\* pop_front().unwrap_or(0.0), i times over
PopFront(buffer, i) == IF i <= Len(buffer) THEN buffer[i] ELSE 0
DropFront(buffer, n) == SubSeq(buffer, min(n, Len(buffer)) + 1, Len(buffer))

\* sample n of a source since the start
Samples(from, n) == [i \in 1..n |-> from + i]

NewMixer == [mic_buffer |-> <<>>, system_buffer |-> <<>>,
             mic_pushed |-> 0, system_pushed |-> 0,
             op |-> "new", samples |-> <<>>, output |-> <<>>]

push_mic ==
    /\ \E n \in PushLens :
          /\ mixer.mic_pushed + n <= MaxPushed
          /\ LET samples == Samples(mixer.mic_pushed, n)
             IN  mixer' = [mixer EXCEPT !.mic_buffer = push(@, samples),
                                        !.mic_pushed = @ + n,
                                        !.op = "push_mic", !.samples = samples,
                                        !.output = <<>>]
    /\ UNCHANGED butMixer

push_system ==
    /\ \E n \in PushLens :
          /\ mixer.system_pushed + n <= MaxPushed
          /\ LET samples == Samples(mixer.system_pushed, n)
             IN  mixer' = [mixer EXCEPT !.system_buffer = push(@, samples),
                                        !.system_pushed = @ + n,
                                        !.op = "push_system", !.samples = samples,
                                        !.output = <<>>]
    /\ UNCHANGED butMixer

\* each output sample is the weighted sum of a microphone and a system sample
mix ==
    /\ LET count == available_samples(mixer)
       IN  mixer' = [mixer EXCEPT
                       !.mic_buffer = DropFront(@, count),
                       !.system_buffer = DropFront(@, count),
                       !.op = "mix", !.samples = <<>>,
                       !.output = [i \in 1..count |->
                                     [mic |-> PopFront(mixer.mic_buffer, i),
                                      system |-> PopFront(mixer.system_buffer, i)]]]
    /\ UNCHANGED butMixer

drain_mic ==
    /\ mixer' = [mixer EXCEPT
                   !.mic_buffer = <<>>, !.op = "drain_mic", !.samples = <<>>,
                   !.output = [i \in 1..Len(mixer.mic_buffer) |->
                                 [mic |-> mixer.mic_buffer[i], system |-> 0]]]
    /\ UNCHANGED butMixer

drain_system ==
    /\ mixer' = [mixer EXCEPT
                   !.system_buffer = <<>>, !.op = "drain_system", !.samples = <<>>,
                   !.output = [i \in 1..Len(mixer.system_buffer) |->
                                 [mic |-> 0, system |-> mixer.system_buffer[i]]]]
    /\ UNCHANGED butMixer

clear ==
    /\ mixer' = [mixer EXCEPT !.mic_buffer = <<>>, !.system_buffer = <<>>,
                              !.op = "clear", !.samples = <<>>, !.output = <<>>]
    /\ UNCHANGED butMixer

NextMixer ==
    \/ push_mic
    \/ push_system
    \/ mix
    \/ drain_mic
    \/ drain_system
    \/ clear

InitMixer == mixer = NewMixer

----------------------------------------------------------------------------
(* the buffer stop_recording returns to the owning binding (audio.rs:472-512) *)

\* WHISPER_SAMPLE_RATE is 16000 in the source (audio.rs:130); the model runs
\* the code with a rate of 4 samples per second
WHISPER_SAMPLE_RATE == 4
MaxSamples == 6     \* the longest buffer the recorder gives
SampleValues == {0, 1}

Buffers == UNION {[1..n -> SampleValues] : n \in 0..MaxSamples}

\* Vec::resize(new_len, value)
resize(v, new_len, value) == [i \in 1..new_len |-> IF i <= Len(v) THEN v[i] ELSE value]

is_short_or_empty(s_len) == s_len < WHISPER_SAMPLE_RATE
\* s_len < WHISPER_SAMPLE_RATE && s_len > 0
is_short(s_len) == s_len < WHISPER_SAMPLE_RATE /\ s_len > 0

\* lines 503-512
pad(samples) ==
    IF is_short(Len(samples))
    THEN resize(samples, (WHISPER_SAMPLE_RATE * 5) \div 4, 0)
    ELSE samples

NoStop == [outcome |-> "none", samples |-> <<>>, returned |-> <<>>]

\* lines 472-489: the recorder's buffer, or an empty one when stop() fails or
\* no recorder is there
StopOwner ==
    /\ \E buf \in Buffers, outcome \in {"ok", "stop_failed", "no_recorder"} :
          LET samples == IF outcome = "ok" THEN buf ELSE <<>>
          IN  stop_call' = [outcome |-> outcome, samples |-> samples,
                            returned |-> pad(samples)]
    /\ UNCHANGED butStop

NextStop ==
    \/ StopOwner

InitStop == stop_call = NoStop

----------------------------------------------------------------------------

InitManagers == InitRec /\ InitAL /\ InitAsk

InitPrompt == prompt = NoPrompt

InitFns ==
    /\ InitPrompt /\ InitConv /\ InitGen /\ InitChunker /\ InitRag /\ InitConfig
    /\ InitMixer /\ InitStop

Init == InitManagers /\ InitFns

\* settings/mod.rs:607, settings/general.rs:32
DefaultSettings == [always_on_microphone |-> FALSE, mute_while_recording |-> FALSE]

SpecRec == Init /\ [][NextRec]_vars

SpecPtt == Init /\ [][NextPtt]_vars

SpecMode == Init /\ [][NextMode]_vars

SpecCapture == Init /\ [][NextCapture]_vars

\* the managers as constructed under the default settings
InitDefault == Init /\ settings = DefaultSettings

SpecAL == InitDefault /\ [][NextAL]_vars

SpecSession == InitDefault /\ [][NextSession]_vars

\* A spawned segment task runs on the async runtime: each of its steps is taken
\* once it is possible, given that the transcription and LLM calls return
FairTasks ==
    \A k \in Segs : /\ WF_vars(process_segment_with_session(k))
                    /\ WF_vars(add_insight_to_session(k))
                    /\ WF_vars(transition_to_listening(k))

SpecALFair == SpecAL /\ FairTasks

\* startup with either microphone mode, mute_while_recording off
InitUnmuted == Init /\ ~settings.mute_while_recording

\* startup with the microphone on demand
InitOnDemand == Init /\ ~settings.always_on_microphone

SpecOnDemand == InitOnDemand /\ [][NextBindings]_vars

\* a call of the templating function with any arguments
InitTemplate ==
    /\ InitManagers /\ settings = DefaultSettings
    /\ prompt \in PromptInputs
    /\ InitConv /\ InitGen /\ InitChunker /\ InitRag /\ InitConfig /\ InitMixer /\ InitStop

\* a call of generate_stream against any response of the server
InitStream ==
    /\ InitManagers /\ settings = DefaultSettings
    /\ InitPrompt /\ InitConv
    /\ gen \in GenInputs
    /\ InitChunker /\ InitRag /\ InitConfig /\ InitMixer /\ InitStop

\* a call of chunk_text on any text
InitChunk ==
    /\ InitManagers /\ settings = DefaultSettings
    /\ InitPrompt /\ InitConv /\ InitGen
    /\ chunker \in ChunkInputs
    /\ InitRag /\ InitConfig /\ InitMixer /\ InitStop

SpecChunker == InitChunk /\ [][NextChunker]_vars

\* a call of search on any table
InitSearch ==
    /\ InitManagers /\ settings = DefaultSettings
    /\ InitPrompt /\ InitConv /\ InitGen /\ InitChunker
    /\ rag \in RagInputs
    /\ InitConfig /\ InitMixer /\ InitStop

SpecRag == InitSearch /\ [][NextRag]_vars

\* the setting-change commands, one after another
SpecConfig == InitDefault /\ [][NextConfig]_vars

\* the owner's stop_recording under any recorder buffer
SpecStop == InitDefault /\ [][NextStop]_vars

\* a new mixer under any calls
SpecMixer == InitDefault /\ [][NextMixer]_vars

SpecStream == InitStream /\ [][NextStream]_vars

\* a new conversation, with any setting of the recording manager
SpecConversation == Init /\ [][NextConversation]_vars

SpecTemplate == InitTemplate /\ [][NextTemplate]_vars

SpecToggle == InitUnmuted /\ [][NextToggle]_vars

SpecCommand == InitUnmuted /\ [][NextCommand]_vars

SpecAsk == InitDefault /\ [][NextAsk]_vars

----------------------------------------------------------------------------
(* Properties of the recording manager *)

\* C1: while binding a owns the recording, every step leaves it with a, except a
\* stop_recording(a) or a cancel_recording, which makes it Idle; and a
\* try_start_recording that finds the recording owned returns false and leaves
\* the owner in place.
C1_RecordingExclusive ==
    [][\A a \in Bindings : rec_state = a =>
          /\ \/ rec_state' = a
             \/ /\ rec_state' = "Idle"
                /\ \E t \in Threads :
                      /\ pc'[t] # pc[t]
                      /\ (pc[t] = "sr0" /\ arg[t] = a) \/ pc[t] = "cr0"
          /\ \A t \in Threads :
                pc[t] = "ts0" /\ pc'[t] # "ts0" =>
                    /\ pc'[t] = "done"
                    /\ ret'[t] = "false"
                    /\ rec_state' = a]_vars

\* C1 witness: a try_start_recording has returned false to its caller while the
\* other binding owns the recording
C1_Rejected ==
    \E t \in Clients :
        /\ pc[t] = "done" /\ ret[t] = "false"
        /\ arg[t] \in Bindings
        /\ rec_state \in Bindings /\ rec_state # arg[t]

\* C6: a thread that takes one of the five ordered locks holds, at that moment,
\* only locks that come earlier in the order state, mode, is_open, is_recording,
\* did_mute.
C6_LockOrder ==
    [][\A t \in Threads : \A l \in OrderedLocks :
          holder[l] # t /\ holder'[l] = t =>
              \A h \in OrderedLocks : holder[h] = t => Rank(h) < Rank(l)]_vars

\* C7: once a push-to-talk cycle is over (key released, the mute thread and the
\* stop task finished), the system output is unmuted as it was before the press.
C7_MuteRestored ==
    (~pressed /\ \A t \in PttThreads : pc[t] = "idle") => ~sys_muted

\* C8: when cancel_recording returns after cancelling a recording whose did_mute
\* was true, the system output is unmuted and did_mute is false.
C8_CancelUnmutes ==
    [][\A t \in Threads :
          pc[t] \in {"cr3", "cr4"} /\ pc'[t] = "done" /\ muted_at_cancel[t] =>
              ~sys_muted' /\ ~did_mute']_vars

----------------------------------------------------------------------------
(* Properties of the Active Listening manager *)

\* C2: a session never has two segment-processing tasks in flight, a task being
\* in flight from its spawn until it has run transition_to_listening.
C2_OneSegmentInFlight ==
    \A s \in 1..MaxSessions :
        Cardinality({k \in Segs : /\ tasks[k].pc \notin {"free", "done"}
                                  /\ tasks[k].session = s}) <= 1

\* C3: when a segment's task has run add_insight_to_session, the segment's
\* insight is held by its session: the manager's current session, or the session
\* that stop_session took and handed to its caller.
C3_InsightAttached ==
    [][\A k \in Segs :
          tasks[k].pc = "ta" /\ tasks'[k].pc = "tl" =>
              \E r \in {current_session'} \cup stopped'
                          \cup {loc'[t].taken : t \in AlThreads} :
                  /\ r.some /\ r.id = tasks[k].session
                  /\ \E i \in 1..Len(r.insights) : r.insights[i] = k]_vars

\* C4: no segment-processing task is spawned for a session that stop_session
\* has already returned.
C4_NoTaskAfterStop ==
    [][\A k \in Segs :
          tasks[k].pc = "free" /\ tasks'[k].pc = "tk0" =>
              \A r \in stopped : r.id # tasks'[k].session]_vars

C9_NoTurnForCancelled ==
    [][\A k \in Questions :
          (/\ questions[k].pc = "p4"
           /\ questions'[k].pc = "p5"
           /\ active_conversation'.turns # active_conversation.turns)
          => k \notin cancelled]_vars

\* C10: when a step of an Ask AI question fails (no audio, transcription error,
\* empty transcription, no model configured, generation error) the state goes
\* to ConversationActive if the active conversation has a turn and to Idle
\* otherwise, a state from which start_recording is accepted
C10_FailureReturns ==
    [][/\ \A k \in Questions :
             (questions[k].pc = "pe" /\ questions'[k].pc = "done")
             => ask_state' = IF HasTurns(active_conversation')
                               THEN "ConversationActive" ELSE "Idle"
       /\ \A t \in AskThreads :
             (pc[t] = "pq1" /\ pc'[t] \notin {"pq1", "rs0"})
             => ask_state' = "ConversationActive"]_vars

\* C11: a cancel issued while the state is Generating leaves the state at Idle
\* when the conversation had no prior turn and at ConversationActive when it had
\* at least one; stated at the step in which the cancel writes the state
C11_CancelFromGenerating ==
    [][\A t \in AskThreads :
          (/\ pc[t] = "rs0" /\ pc'[t] = "rs1"
           /\ stack[t] # <<>> /\ Head(stack[t]) = "cn1"
           /\ aloc[t].generating)
          => ask_state' = IF aloc[t].flag THEN "ConversationActive" ELSE "Idle"]_vars

\* C12: whenever the Active Listening state is Processing, it later leaves
\* Processing (to Listening, or to Idle when the session is stopped), whatever
\* the outcome of transcription and generation, given that the task's calls return
C12_LeavesProcessing == (al_state = "Processing") ~> (al_state # "Processing")

\* a segment whose transcription failed has ended and the state is Listening again
C12_FailedSegmentLeft ==
    \E k \in Segs : /\ tasks[k].pc = "done"
                    /\ tasks[k].transcription = "err"
                    /\ al_state = "Listening"

\* the segments of the insights of every session, current or stopped
InsightSegments(session) == {session.insights[i] : i \in 1..Len(session.insights)}

\* C13: a segment whose transcription failed is never among the insights of a
\* session, the steps of its task leave the segment buffer as it is, and its
\* last step takes the state from Processing to Listening
C13_FailedTranscriptionSeen ==
    [][\A k \in Segs :
          tasks'[k].transcription = "err" =>
             /\ \A session \in {current_session'} \cup stopped' :
                   k \notin InsightSegments(session)
             /\ tasks'[k] # tasks[k] => segment_buffer' = segment_buffer
             /\ (tasks[k].pc = "tl" /\ tasks'[k].pc = "done" /\ al_state = "Processing")
                   => al_state' = "Listening"]_vars

\* the failed segment's task has ended in its own session: the state is
\* Listening, the session holds no insight and the buffer is empty
C13_FailedSegmentDropped ==
    \E k \in Segs : /\ tasks[k].pc = "done"
                    /\ tasks[k].transcription = "err"
                    /\ current_session.some
                    /\ current_session.id = tasks[k].session
                    /\ current_session.insights = <<>>
                    /\ al_state = "Listening"
                    /\ segment_buffer = 0

\* C14: in every session, current or stopped, the insights stand in the order
\* in which their segments were taken from the segment buffer
C14_InsightsInTakeOrder ==
    \A session \in {current_session} \cup stopped :
        \A i, j \in 1..Len(session.insights) :
            i < j => session.insights[i] < session.insights[j]

\* C15: when the toggle stops a session, the remaining buffer is handed to
\* segment processing exactly when it holds at least 8000 samples, and what
\* stop_session then discards holds fewer than 8000 samples
C15_FlushOnStop ==
    [][\A t \in UiThreads :
          /\ (pc[t] = "fl1" /\ pc'[t] # "fl1")
                => (pc'[t] = "tg0" <=> segment_buffer >= FlushThreshold)
          /\ (pc[t] = "xs2" /\ pc'[t] = "xs3")
                => segment_buffer < FlushThreshold]_vars

\* C16: stop_recording(b) goes on to stop the recorder and return samples only
\* when the state is Recording with binding b; otherwise it returns nothing and
\* leaves the state, the is_recording flag and the stream as they are
C16_StopOnlyOwner ==
    [][\A t \in Clients :
          /\ (pc[t] = "sr0" /\ pc'[t] # "sr0") =>
                IF rec_state \in Bindings /\ rec_state = arg[t]
                  THEN pc'[t] = "sr1"
                  ELSE /\ pc'[t] = "done" /\ ret'[t] = "none"
                       /\ UNCHANGED <<rec_state, is_recording, is_open, recorder>>
          /\ (pc'[t] = "done" /\ pc[t] # "done" /\ ret'[t] = "some")
                => pc[t] \in {"sr3", "sr4"}]_vars

\* stop_recording of one binding has returned nothing while the other binding's
\* recording goes on
C16_ForeignStopIgnored ==
    \E t \in Clients : /\ pc[t] = "done" /\ ret[t] = "none"
                       /\ rec_state \in Bindings /\ rec_state # arg[t]
                       /\ arg[t] \in Bindings
                       /\ is_recording /\ is_open

\* C17: in OnDemand mode, whenever no operation of the recording manager is in
\* progress, the stream is open if the state is Recording and closed if it is Idle
C17_OpenWhileRecording ==
    (mic_mode = "OnDemand" /\ \A t \in Clients : pc[t] \in {"idle", "done"})
        => (is_open <=> rec_state # "Idle")


LastN(q, n) == SubSeq(q, Len(q) - n + 1, Len(q))

\* the segment's insight has text
HasText(k) == tasks[k].insight = "text"

\* C19: the previous context read for a segment's prompt is the last
\* min(ContextWindow, n) insights of the current session, n being the number
\* of insights it holds then, and the context buffer never holds more than
\* ContextWindow entries
C19_ContextIsLastInsights ==
    [][/\ \A k \in Segs :
             ( /\ tasks[k].pc = "cx" /\ tasks'[k].pc # "cx"
               /\ current_session.some /\ current_session.id = tasks[k].session )
             => LET held == SelectSeq(current_session.insights, HasText)
                    n == Len(held)
                IN  tasks'[k].context =
                       LastN(held, IF n < ContextWindow THEN n ELSE ContextWindow)
        /\ Len(context_buffer') <= ContextWindow]_vars

\* the value each placeholder stands for in a call
PromptValues ==
    [ph \in Placeholders |->
        CASE ph = "{{transcription}}" -> prompt.transcription
          [] ph = "{{previous_context}}" -> prompt.previous_context
          [] ph = "{{session_topic}}" ->
                 unwrap_or(prompt.session_topic, <<"Not specified">>)
          [] ph = "{{retrieved_context}}" ->
                 unwrap_or(prompt.retrieved_context,
                           <<"No additional context available">>)]

\* the template with each of its placeholders replaced by its value, the values
\* themselves left as they are
RECURSIVE SinglePass(_)
SinglePass(s) ==
    IF s = <<>>
      THEN <<>>
      ELSE (IF Head(s) \in Placeholders THEN PromptValues[Head(s)] ELSE <<Head(s)>>)
             \o SinglePass(Tail(s))

\* C20: the result of the templating function is the single-pass replacement of
\* the template's placeholders: placeholder text inside a value stays verbatim
C20_SinglePassTemplate ==
    prompt.result.some => prompt.result.value = SinglePass(prompt.template)

\* the last n entries of the turns, each as its two lines
RECURSIVE LinesOf(_)
LinesOf(turns) ==
    IF turns = <<>> THEN <<>> ELSE TurnLines(Head(turns)) \o LinesOf(Tail(turns))

\* C21: the context built from a conversation is made of its last 10 turns, in
\* order, when it has more than 10, and of all its turns otherwise
C21_LastTenTurns ==
    [][conv_call'.op = "build_context" =>
          conv_call'.context =
             LinesOf(LastN(conv.turns,
                           IF Len(conv.turns) > 10 THEN 10 ELSE Len(conv.turns)))]_vars

\* a context was built from a conversation of more than 10 turns
C21_LongConversationBuilt ==
    /\ conv_call.op = "build_context" /\ Len(conv.turns) > 10
    /\ Len(conv_call.context) = 20
    /\ conv_call.context[1].turn = conv.turns[Len(conv.turns) - 9]

\* C29: a call of add_turn that returns sets the title from its question when
\* the title is unset, which is so only for the first turn, and leaves a set
\* title as it is
C29_TitleSeededOnce ==
    [][conv'.turns # conv.turns =>
          /\ (conv.title = NoTitle) <=> (conv.turns = <<>>)
          /\ conv'.title = IF conv.turns = <<>>
                             THEN generate_title(conv'.turns[1])
                             ELSE conv.title]_vars

\* a later turn with another question was added and the title is the first one's
C29_TitleKept ==
    /\ Len(conv.turns) >= 2 /\ conv.turns[2] # conv.turns[1]
    /\ conv.title = generate_title(conv.turns[1])
    /\ conv_call.op = "add_turn" /\ conv_call.outcome = "returned"

\* C22: when the receiver is gone, the line whose token cannot be sent is the
\* last one consumed: the call returns Ok with the text accumulated up to and
\* with that token, and once it has returned nothing more is consumed
C22_ConsumerGone ==
    [][/\ ( /\ gen.pc = "stream" /\ gen.pos <= Len(gen.lines)
            /\ HasResponse(gen.lines[gen.pos]) /\ gen.receiver = "dropped"
            /\ gen' # gen )
          => /\ gen'.pc = "returned" /\ gen'.pos = gen.pos + 1
             /\ gen'.result = Ok(Append(gen.complete_response, gen.pos))
             /\ gen'.received = gen.received
       /\ gen.pc = "returned" => gen' = gen]_vars

\* the call returned at a failed send with lines of the stream left unread
C22_StoppedAtFailedSend ==
    /\ gen.pc = "returned" /\ gen.result.ok /\ gen.receiver = "dropped"
    /\ gen.pos <= Len(gen.lines)
    /\ gen.lines[gen.pos - 1] = "token"
    /\ gen.received # <<>>
    /\ Len(gen.result.text) = Len(gen.received) + 1

\* the positions of the text (from 1) that a chunk holds
Covered ==
    UNION {chunker.chunks[i].from + 1 ..
             chunker.chunks[i].from + Len(chunker.chunks[i].chunk) :
           i \in 1..Len(chunker.chunks)}

\* C24: when chunk_text has returned, every character of the text that is not
\* a space is held by a chunk, at its place in the text
C24_ChunksCoverText ==
    chunker.pc = "returned" =>
       /\ \A i \in 1..Len(chunker.text) :
             chunker.text[i] # " " => i \in Covered
       /\ \A i \in 1..Len(chunker.chunks) :
             LET c == chunker.chunks[i]
             IN  c.chunk = SubSeq(chunker.text, c.from + 1, c.from + Len(c.chunk))

\* one similarity is strictly higher than another: both are numbers
Higher(a, b) == ~a.nan /\ ~b.nan /\ a.value > b.value

\* C23: a search that succeeds returns at most top_k results, each from a row
\* of the current embedding model, none followed by one of strictly higher
\* similarity, and no row of that model left out has a strictly higher
\* similarity than a result
C23_TopK ==
    (rag.pc = "returned" /\ rag.ok) =>
       LET res == rag.results
           returned == {res[i].row : i \in 1..Len(res)}
       IN  /\ Len(res) <= rag.top_k
           /\ \A i \in 1..Len(res) :
                 /\ res[i].row \in 1..Len(rag.rows)
                 /\ rag.rows[res[i].row].model = rag.embedding_model
                 /\ rag.rows[res[i].row].similarity = res[i].similarity
           /\ \A i, j \in 1..Len(res) :
                 i < j => ~Higher(res[j].similarity, res[i].similarity)
           /\ \A k \in 1..Len(rag.rows) :
                 (rag.rows[k].model = rag.embedding_model /\ k \notin returned)
                 => \A i \in 1..Len(res) :
                       ~Higher(rag.rows[k].similarity, res[i].similarity)

\* C25: after a setting-change command that returned an error, the persisted
\* settings and the configuration held in memory and in the RAG manager's table
\* are what the command found
C25_FailedChangeLeavesNothing ==
    config.returned = "err" => Configured(config) = config.before

\* C26: available_samples is the smaller of the two buffer lengths, and a mix
\* returns that many samples, made of the first that many of each buffer in
\* order, and leaves the rest of each buffer
C26_MixTakesMin ==
    [][LET n == IF Len(mixer.mic_buffer) < Len(mixer.system_buffer)
                  THEN Len(mixer.mic_buffer) ELSE Len(mixer.system_buffer)
       IN  /\ available_samples(mixer) = n
           /\ mixer'.op = "mix" =>
                 /\ Len(mixer'.output) = n
                 /\ \A i \in 1..n :
                       mixer'.output[i] = [mic |-> mixer.mic_buffer[i],
                                           system |-> mixer.system_buffer[i]]
                 /\ mixer'.mic_buffer =
                       SubSeq(mixer.mic_buffer, n + 1, Len(mixer.mic_buffer))
                 /\ mixer'.system_buffer =
                       SubSeq(mixer.system_buffer, n + 1,
                              Len(mixer.system_buffer))]_vars

\* a mix of unequal buffers left the excess of the longer one
C26_ExcessLeft ==
    /\ mixer.op = "mix" /\ Len(mixer.output) >= 2
    /\ mixer.system_buffer = <<>> /\ mixer.mic_buffer # <<>>
    /\ mixer.mic_buffer[1] = mixer.output[Len(mixer.output)].mic + 1

\* the buffer a push went to, before and after
PushedBuffer(m) == IF m.op = "push_mic" THEN m.mic_buffer ELSE m.system_buffer

\* C27: after a push the buffer holds at most MAX_BUFFER_SIZE samples: the last
\* ones of what it held followed by what was pushed, in that order
C27_HeadDrop ==
    [][mixer'.op \in {"push_mic", "push_system"} =>
          LET before == IF mixer'.op = "push_mic" THEN mixer.mic_buffer
                                                  ELSE mixer.system_buffer
              after == PushedBuffer(mixer')
              all == before \o mixer'.samples
          IN  /\ Len(after) <= MAX_BUFFER_SIZE
              /\ after = LastN(all, IF Len(all) < MAX_BUFFER_SIZE
                                       THEN Len(all) ELSE MAX_BUFFER_SIZE)]_vars

\* a push larger than the capacity onto a buffer that held samples
C27_OldestDropped ==
    /\ mixer.op = "push_mic" /\ Len(mixer.samples) > MAX_BUFFER_SIZE
    /\ mixer.mic_pushed > Len(mixer.samples)
    /\ Len(mixer.mic_buffer) = MAX_BUFFER_SIZE
    /\ mixer.mic_buffer[MAX_BUFFER_SIZE] = mixer.mic_pushed
    /\ mixer.mic_buffer[1] = mixer.mic_pushed - MAX_BUFFER_SIZE + 1

Returned(c) == c.outcome # "none"
ZerosFrom(v, n) == \A i \in (n + 1)..Len(v) : v[i] = 0

\* the buffer is the captured samples followed by zeros, WHISPER_SAMPLE_RATE *
\* 5 / 4 samples in all
Padded(c) ==
    /\ Len(c.returned) = (WHISPER_SAMPLE_RATE * 5) \div 4
    /\ SubSeq(c.returned, 1, Len(c.samples)) = c.samples
    /\ ZerosFrom(c.returned, Len(c.samples))

\* C28 as stated: every buffer shorter than WHISPER_SAMPLE_RATE samples comes
\* back padded with zeros to WHISPER_SAMPLE_RATE * 5 / 4 samples, and a buffer
\* of WHISPER_SAMPLE_RATE samples or more comes back unchanged
C28_ShortPadded ==
    Returned(stop_call) =>
        IF Len(stop_call.samples) < WHISPER_SAMPLE_RATE
        THEN Padded(stop_call)
        ELSE stop_call.returned = stop_call.samples

\* C28: a buffer of at least one and fewer than WHISPER_SAMPLE_RATE samples
\* comes back padded with zeros to WHISPER_SAMPLE_RATE * 5 / 4 samples; an
\* empty buffer and a buffer of WHISPER_SAMPLE_RATE samples or more come back
\* unchanged
C28_NonEmptyShortPadded ==
    Returned(stop_call) =>
        IF /\ Len(stop_call.samples) < WHISPER_SAMPLE_RATE
           /\ Len(stop_call.samples) > 0
        THEN Padded(stop_call)
        ELSE stop_call.returned = stop_call.samples

\* a short buffer with a sample in it came back padded
C28_ShortCamePadded ==
    /\ stop_call.outcome = "ok"
    /\ Len(stop_call.samples) = WHISPER_SAMPLE_RATE - 1
    /\ stop_call.samples[1] = 1
    /\ Len(stop_call.returned) > WHISPER_SAMPLE_RATE

\* C30: between two takings of a segment current_segment_speaker is assigned a
\* speaker at most once, and the thread that took a segment leaves it unset
C30_SpeakerSetOnce ==
    /\ [](speaker_sets <= 1)
    /\ [][\A t \in AlThreads :
            pc[t] = "tg2" /\ pc'[t] = "tg3" =>
                current_segment_speaker' = NoSpeaker]_vars

----------------------------------------------------------------------------
(* Blocking in the recording manager *)

\* the mutexes the next step of thread t locks, by its position in apply_mute,
\* remove_mute, start_microphone_stream, stop_microphone_stream,
\* try_start_recording, stop_recording, cancel_recording and update_mode
Wants(t) ==
    CASE pc[t] \in {"am0", "rm0", "sm1", "xm1"} -> {"did_mute"}
      [] pc[t] \in {"am1", "sm0", "xm0"} -> {"is_open"}
      [] pc[t] \in {"sm2", "xm2", "sr1", "cr1"} -> {"recorder"}
      [] pc[t] = "ts3" -> IF ret[t] = "err" THEN {} ELSE {"recorder"}
      [] pc[t] \in {"sm3", "ts1", "sr3", "cr3", "um0", "um4"} -> {"mode"}
      [] pc[t] = "um3" -> IF ret[t] = "err" THEN {} ELSE {"mode"}
      [] pc[t] = "sm4" -> IF mic_mode = "ActiveListening"
                            THEN {"active_listening_callback"} ELSE {}
      [] pc[t] \in {"xm3", "ts5", "sr2", "cr2"} -> {"is_recording"}
      [] pc[t] \in {"ts0", "sr0", "cr0", "um1"} -> {"state"}
      [] OTHER -> {}

\* t is blocked in lock() on a mutex that u holds
WaitsFor(t, u) == \E l \in Wants(t) : holder[l] = u

\* C31: no two threads each wait for a mutex the other holds
C31_NoMutualWait ==
    \A t, u \in Threads : t # u => ~(WaitsFor(t, u) /\ WaitsFor(u, t))

InUpdateMode(t) == pc[t] \in {"um0", "um1", "um2", "um3", "um4"}

\* C32: update_mode never locks a mutex that its own call still holds, so that
\* it returns whatever the current mode, the requested mode and the recording
\* state are
C32_UpdateModeReturns ==
    \A t \in Threads : InUpdateMode(t) => ~WaitsFor(t, t)

----------------------------------------------------------------------------
(* Sessions of the Active Listening manager and what outlives them *)

\* no stop_session is between its write of Idle and its return
StopReturned == \A t \in AlThreads : pc[t] \notin {"xs1", "xs2", "xs3"}

\* start_session's check-and-set of the state
StartSessionStep == \E t \in AlThreads : pc[t] = "ss0" /\ pc'[t] = "ss1"

\* C33: once stop_session has returned, the state is Idle and only a
\* start_session that succeeds moves it away from Idle
C33_IdleAfterStop ==
    [][al_state = "Idle" /\ StopReturned /\ al_state' # "Idle" =>
          StartSessionStep]_vars

\* task k is spawned and has not yet run transition_to_listening
TaskInFlight(k) == tasks[k].pc \notin {"free", "done"}

\* C34: the task of a segment of an earlier session does not move the state
\* from Processing to Listening while a segment of the current session is
\* being processed
C34_TaskOfEarlierSession ==
    [][\A k \in Segs :
          /\ tasks[k].pc = "tl" /\ tasks'[k].pc = "done"
          /\ current_session.some /\ tasks[k].session # current_session.id
          /\ \E j \in Segs : /\ TaskInFlight(j)
                              /\ tasks[j].session = current_session.id
          => ~(al_state = "Processing" /\ al_state' = "Listening")]_vars

\* no start_session is between its write of Listening and its return
StartReturned ==
    \A t \in AlThreads : pc[t] \notin {"ss1", "ss2", "ss3", "ss4", "ss5"}

\* C35: once start_session has cleared the context buffer for a session and
\* returned, the buffer holds insights of that session's segments only
C35_ContextOfOwnSession ==
    current_session.some /\ StartReturned =>
        \A i \in 1..Len(context_buffer) :
            tasks[context_buffer[i]].session = current_session.id

----------------------------------------------------------------------------
(* The audio capture of Active Listening *)

\* the recorder runs with the session's callback: samples reach the session
Capturing == recorder.some /\ recorder.cb /\ recorder.running /\ is_recording

\* C36: while Active Listening captures, the stop_recording or
\* cancel_recording that ends a binding's recording does not stop the recorder
\* and does not clear is_recording
C36_CaptureGoesOn ==
    [][\A t \in Clients :
          /\ mic_mode = "ActiveListening" /\ Capturing
          /\ pc[t] \in {"sr1", "cr1"} /\ pc'[t] # pc[t]
          => recorder'.running]_vars

\* C37: when start_active_listening_session returns the error of a capture
\* that could not be started, the state is Idle, no session is current and the
\* microphone mode is not ActiveListening
C37_NothingHalfStarted ==
    [][\A t \in UiThreads :
          pc[t] = "cs2" /\ pc'[t] = "done" /\ ret[t] = "err" =>
              /\ al_state' = "Idle"
              /\ ~current_session'.some
              /\ mic_mode' # "ActiveListening"]_vars

----------------------------------------------------------------------------
(* The Ask AI shortcut while a question is being worked on *)

\* C38: a press of the Ask AI shortcut that start_recording turned down while
\* the state was Transcribing or Generating, and the release that follows it,
\* leave the state, the conversation, the cancel signal and the running
\* question as they were
C38_BusyPressIgnored ==
    [][rejected /\ pc'[AskThread] # pc[AskThread] =>
          UNCHANGED <<ask_state, active_conversation, cancel_signal, questions>>]_vars

----------------------------------------------------------------------------
(* The loop of chunk_text *)

\* C39: every round of the loop of chunk_text moves start forward by at least
\* one character
C39_StartAdvances ==
    [][chunker.pc = "loop" /\ chunker' # chunker =>
          chunker'.start >= chunker.start + 1]_vars

----------------------------------------------------------------------------
(* A recording and the stream under it *)

\* C40: whenever the state is Recording and no operation of the manager is in
\* progress, the stream is open and is_recording is true
C40_RecordingHasStream ==
    (rec_state # "Idle" /\ \A t \in Clients : pc[t] \in {"idle", "done"})
        => (is_open /\ is_recording)
====
